---- MODULE Spec2Model ----
(***************************************************************************)
(* Neutron language server: tokenizer, error-recovering recursive-descent  *)
(* parser (NeutronParser), type checker (TypeChecker) and the validation   *)
(* pipeline of the server (analyzeTypeSafety / validateTextDocument).      *)
(*                                                                         *)
(* Text is a sequence of one-character strings; offsets are the 0-based    *)
(* JavaScript offsets, so the character at offset i is input[i + 1].       *)
(***************************************************************************)
EXTENDS Integers, Sequences, FiniteSets, TLC

VARIABLES
    doc,          \* the pieces the document text was composed of
    input,        \* the document text (textDocument.getText())
    scanCurrent,  \* the scan position of tokenize()
    pc,           \* position of the validation in the pipeline
    tokens,       \* parser.tokens
    position,     \* parser.position
    errors,       \* parser.errors
    statements,   \* the `statements` list of parse()
    hasErrors,    \* whether the returned Program has an `errors` field
    iters,        \* iterations of the statement loop of parse() so far
    symbolTable,  \* typeChecker.symbolTable
    checkIdx,     \* index of the next statement of check()'s loop
    diagnostics,  \* the `errors` array of analyzeTypeSafety
    published,    \* the diagnostics last sent with sendDiagnostics
    hasConfigurationCapability,
    globalSettings,
    documentSettings,  \* the promise cached for the document, 0 for none
    promises,     \* the promises of getConfiguration, by number
    awaiting,     \* the promise each suspended validateTextDocument awaits
    requests,     \* workspace/configuration requests the client has to answer
    inbox,        \* messages from the client the server has to handle
    clientSettings,    \* the `neutron` section of the client's configuration
    lastRun,      \* the settings and the branch of the last validation
    events,       \* edits and configuration changes of the client so far
    previous      \* the AST and the errors of an earlier analyzeTypeSafety

serverVars == <<hasConfigurationCapability, globalSettings, documentSettings,
                promises, awaiting, requests, inbox, clientSettings, lastRun,
                events>>

vars == <<doc, input, scanCurrent, pc, tokens, position, errors, statements, hasErrors,
          iters, symbolTable, checkIdx, diagnostics, published,
          serverVars, previous>>

(***************************************************************************)
(* Bounds.                                                                 *)
(***************************************************************************)
MaxStmts == 2
MaxTypeStmts == 3
MaxSpin == 2
MaxAnyStmts == 2
MaxScanLen == 4
MaxStructStmts == 2
MaxEvents == 3
MaxNestStmts == 2
MaxOperators == 2
MaxSkipLen == 3
MaxReuseStmts == 1
MaxDeepStmts == 2
MaxStrayStmts == 2

(***************************************************************************)
(* Characters and reserved words.                                          *)
(***************************************************************************)
Undefined == "undefined"
At(s, i) == IF i >= 0 /\ i < Len(s) THEN s[i + 1] ELSE Undefined
Slice(s, a, b) == IF b <= a THEN <<>> ELSE SubSeq(s, a + 1, IF b > Len(s) THEN Len(s) ELSE b)

Whitespace == {" ", "\t", "\n", "\r", "\f"}
Digits == {"0", "1", "2", "3", "4", "5", "6", "7", "8", "9"}
NumberChars == Digits \cup {"."}
IdentStart ==
    {"a", "b", "c", "d", "e", "f", "g", "h", "i", "j", "k", "l", "m",
     "n", "o", "p", "q", "r", "s", "t", "u", "v", "w", "x", "y", "z",
     "A", "B", "C", "D", "E", "F", "G", "H", "I", "J", "K", "L", "M",
     "N", "O", "P", "Q", "R", "S", "T", "U", "V", "W", "X", "Y", "Z",
     "_", "$"}
IdentChars == IdentStart \cup Digits

\* the keywords, each by its own name: keywords.var is the text `var`
keywords ==
    [var |-> <<"v","a","r">>,
     int |-> <<"i","n","t">>,
     float |-> <<"f","l","o","a","t">>,
     string |-> <<"s","t","r","i","n","g">>,
     bool |-> <<"b","o","o","l">>,
     array |-> <<"a","r","r","a","y">>,
     object |-> <<"o","b","j","e","c","t">>,
     any |-> <<"a","n","y">>,
     if |-> <<"i","f">>,
     elif |-> <<"e","l","i","f">>,
     else |-> <<"e","l","s","e">>,
     while |-> <<"w","h","i","l","e">>,
     for |-> <<"f","o","r">>,
     return |-> <<"r","e","t","u","r","n">>,
     break |-> <<"b","r","e","a","k">>,
     continue |-> <<"c","o","n","t","i","n","u","e">>,
     class |-> <<"c","l","a","s","s">>,
     fun |-> <<"f","u","n">>,
     this |-> <<"t","h","i","s">>,
     and |-> <<"a","n","d">>,
     or |-> <<"o","r">>,
     not |-> <<"n","o","t">>,
     in |-> <<"i","n">>,
     new |-> <<"n","e","w">>,
     match |-> <<"m","a","t","c","h">>,
     case |-> <<"c","a","s","e">>,
     default |-> <<"d","e","f","a","u","l","t">>,
     use |-> <<"u","s","e">>,
     using |-> <<"u","s","i","n","g">>,
     true |-> <<"t","r","u","e">>,
     false |-> <<"f","a","l","s","e">>,
     nil |-> <<"n","i","l">>]

isKeyword(value) == \E k \in DOMAIN keywords : keywords[k] = value

(***************************************************************************)
(* NeutronParser.tokenize.  The result is [st |-> "ok", tokens |-> ...] or *)
(* [st |-> "throw", ...] for the Error of an unterminated string.          *)
(***************************************************************************)
\* `const r = <call>;` followed by the rest of the method, Body, which reads r
Let(r, Body(_)) == Body(r)

Token(type, value, start, end) ==
    [type |-> type, value |-> value, start |-> start, end |-> end]

RECURSIVE SkipLineComment(_, _)
SkipLineComment(inp, current) ==
    IF current < Len(inp) /\ At(inp, current) # "\n"
    THEN SkipLineComment(inp, current + 1)
    ELSE current

RECURSIVE SkipBlockComment(_, _)
SkipBlockComment(inp, current) ==
    IF current < Len(inp) - 1
       /\ ~(At(inp, current) = "*" /\ At(inp, current + 1) = "/")
    THEN SkipBlockComment(inp, current + 1)
    ELSE current

RECURSIVE ScanString(_, _, _)
ScanString(inp, current, quote) ==
    IF current < Len(inp) /\ At(inp, current) # quote
    THEN IF At(inp, current) = "\\"
         THEN ScanString(inp, current + 2, quote)
         ELSE ScanString(inp, current + 1, quote)
    ELSE current

RECURSIVE ScanWhile(_, _, _)
ScanWhile(inp, current, class) ==
    IF current < Len(inp) /\ At(inp, current) \in class
    THEN ScanWhile(inp, current + 1, class)
    ELSE current

TwoCharOperator(char, next) ==
    IF char = "=" /\ next = "=" THEN <<"=", "=">>
    ELSE IF char = "!" /\ next = "=" THEN <<"!", "=">>
    ELSE IF char = ">" /\ next = "=" THEN <<">", "=">>
    ELSE IF char = "<" /\ next = "=" THEN <<"<", "=">>
    ELSE IF char = "&" /\ next = "&" THEN keywords.and
    ELSE IF char = "|" /\ next = "|" THEN keywords.or
    ELSE <<>>

\* the branch the loop body takes at char, followed by next
Branch(char, next) ==
    IF char \in Whitespace THEN "whitespace"
    ELSE IF char = "/" /\ next = "/" THEN "line comment"
    ELSE IF char = "/" /\ next = "*" THEN "block comment"
    ELSE IF char = "\"" \/ char = "'" THEN "string"
    ELSE IF char \in Digits THEN "number"
    ELSE IF char \in IdentStart THEN "identifier"
    ELSE IF TwoCharOperator(char, next) # <<>> THEN "operator"
    ELSE "symbol"

\* variant: the text after a `/*` that never closes is scanned for tokens
BlockCommentEnd_Rescans(inp, current) ==
    IF SkipBlockComment(inp, current + 2) + 2 > Len(inp)
    THEN current + 2
    ELSE SkipBlockComment(inp, current + 2) + 2

\* `current += 2`, the loop to the closing `*/`, `current += 2`
BlockCommentEnd(inp, current) == SkipBlockComment(inp, current + 2) + 2

\* one iteration of `while (current < input.length)`: the position after
\* it and the token it pushes, or the Error it throws
Scanned(current, emit) == [st |-> "ok", current |-> current, emit |-> emit]

ScanStep(inp, current) ==
    LET char == At(inp, current)
        next == At(inp, current + 1)
        branch == Branch(char, next)
    IN
    CASE branch = "whitespace" -> Scanned(current + 1, <<>>)
      [] branch = "line comment" -> Scanned(SkipLineComment(inp, current), <<>>)
      [] branch = "block comment" -> Scanned(BlockCommentEnd(inp, current), <<>>)
      [] branch = "string" ->
             LET close == ScanString(inp, current + 1, char) IN
             IF close >= Len(inp)
             THEN [st |-> "throw", current |-> close, emit |-> <<>>,
                   msg |-> <<"Unterminated string at position", current>>]
             ELSE Scanned(close + 1,
                      <<Token("STRING", Slice(inp, current, close + 1),
                              current, close + 1)>>)
      [] branch = "number" ->
             LET stop == ScanWhile(inp, current, NumberChars) IN
             Scanned(stop, <<Token("NUMBER", Slice(inp, current, stop),
                                   current, stop)>>)
      [] branch = "identifier" ->
             LET stop == ScanWhile(inp, current, IdentChars)
                 value == Slice(inp, current, stop)
             IN Scanned(stop, <<Token(IF isKeyword(value) THEN "KEYWORD"
                                      ELSE "IDENTIFIER", value, current, stop)>>)
      [] branch = "operator" ->
             Scanned(current + 2,
                 <<Token("OPERATOR", TwoCharOperator(char, next),
                         current, current + 2)>>)
      [] branch = "symbol" ->
             Scanned(current + 1,
                 <<Token("SYMBOL", <<char>>, current, current + 1)>>)

\* the next `passes` passes of the loop `while (current < input.length)`
\* from scan = [st, current, tokens]; after the end of the input, and after
\* a throw, there is no further pass
RECURSIVE ScanLoop(_, _, _)
ScanLoop(inp, scan, passes) ==
    IF passes = 0 \/ scan.st = "throw" \/ scan.current >= Len(inp) THEN scan
    ELSE IF passes = 1
    THEN CHOOSE after \in
             {IF step.st = "throw"
              THEN [st |-> "throw", current |-> scan.current, tokens |-> <<>>,
                    msg |-> step.msg]
              ELSE [st |-> "ok", current |-> step.current,
                    tokens |-> scan.tokens \o step.emit] :
                  step \in {ScanStep(inp, scan.current)}} : TRUE
    ELSE \* the first half of the passes, then the rest
         CHOOSE after \in
             {ScanLoop(inp, half, passes - (passes \div 2)) :
                  half \in {ScanLoop(inp, scan, passes \div 2)}} : TRUE

\* the loop of tokenize from current on: every pass advances current, so
\* the loop is over within Len(inp) - current passes
ScanTokens(inp, current, toks) ==
    CHOOSE scanned \in
        {IF scan.st = "throw"
         THEN [st |-> "throw", tokens |-> <<>>, msg |-> scan.msg]
         ELSE [st |-> "ok", tokens |-> scan.tokens] :
             scan \in {ScanLoop(inp, [st |-> "ok", current |-> current,
                                      tokens |-> toks],
                                IF current < Len(inp) THEN Len(inp) - current
                                ELSE 0)}} : TRUE

\* variant: a string that never closes is closed by the end of the input
tokenize_ClosesAtEnd(inp) ==
    IF ScanTokens(inp, 0, <<>>).st = "throw"
    THEN ScanTokens(inp \o <<"\"">>, 0, <<>>)
    ELSE ScanTokens(inp, 0, <<>>)

tokenize(inp) == ScanTokens(inp, 0, <<>>)

(***************************************************************************)
(* The parser object: p = [tokens, input, position, errors].  A parsing    *)
(* method maps p to a result [st, p, node, msg]: st = "ok" (it returned    *)
(* node), "throw" (it raised an exception with message msg, with the       *)
(* parser left as p) or "hang" (it never returns).                         *)
(***************************************************************************)
Null == [type |-> "null", value |-> <<>>, start |-> -1, end |-> -1]
NoNode == [type |-> "null"]
NoType == <<>>

NewParser == [tokens |-> <<>>, input |-> <<>>, position |-> 0, errors |-> <<>>]

currentToken(p) ==
    IF p.position < Len(p.tokens) THEN p.tokens[p.position + 1] ELSE Null

nextToken(p) ==
    IF p.position < Len(p.tokens) THEN [p EXCEPT !.position = @ + 1] ELSE p

addError(p, message, start, end) ==
    [p EXCEPT !.errors = Append(@, [message |-> message, start |-> start, end |-> end])]

RECURSIVE findEndOfLine(_, _)
findEndOfLine(p, pos) ==
    IF pos < Len(p.input)
    THEN IF At(p.input, pos) = "\n" \/ At(p.input, pos) = "\r"
         THEN pos
         ELSE findEndOfLine(p, pos + 1)
    ELSE Len(p.input)

Msg(text, pos) == [text |-> text, pos |-> pos]
NoMsg == Msg("", -1)
\* reading `.start` or `.value` of the null currentToken() raises a TypeError
TypeErrorMsg == Msg("Cannot read properties of null", -1)

Ok(p, node) == [st |-> "ok", p |-> p, node |-> node, msg |-> NoMsg]
Throw(p, msg) == [st |-> "throw", p |-> p, node |-> NoNode, msg |-> msg]
Hang(p) == [st |-> "hang", p |-> p, node |-> NoNode, msg |-> NoMsg]
\* throw new Error(`<text> at position ${this.currentToken().start}`)
ThrowAt(p, text) ==
    IF currentToken(p) = Null THEN Throw(p, TypeErrorMsg)
    ELSE Throw(p, Msg(text, currentToken(p).start))

Sym(c) == <<c>>


(***************************************************************************)
(* Expressions.                                                            *)
(***************************************************************************)
RECURSIVE parseExpression(_), parseLogicalOr(_), parseLogicalAnd(_),
          parseEquality(_), parseRelational(_), parseAdditive(_),
          parseMultiplicative(_), parseUnary(_), parsePrimary(_),
          parseCallExpression(_, _), parseMemberExpression(_, _),
          parseArrayExpression(_), parseObjectExpression(_),
          parseObjectProperty(_)

Binary(type, operator, left, right) ==
    [type |-> type, operator |-> operator, left |-> left, right |-> right,
     start |-> left.start, end |-> right.end]

\* Each binary level is `left = operand(); while (the current token is one
\* of the level's operators) { operator; nextToken(); right = operand();
\* left = node(left, operator, right) }`.  XLoop(p, left, operator) parses
\* the operand at p and joins it to the left operand parsed so far (NoNode
\* before the first operand), then repeats while an operator follows.
Join(type, left, operator, operand) ==
    IF left = NoNode THEN operand ELSE Binary(type, operator, left, operand)

RECURSIVE LogicalOrLoop(_, _, _)
LogicalOrLoop(p, left, operator) ==
    Let(parseLogicalAnd(p), LAMBDA operand :
    IF operand.st # "ok" THEN operand
    ELSE IF currentToken(operand.p).value \in {keywords.or}
    THEN LogicalOrLoop(nextToken(operand.p),
             Join("LogicalExpression", left, operator, operand.node),
             currentToken(operand.p).value)
    ELSE Ok(operand.p, Join("LogicalExpression", left, operator, operand.node)))

parseLogicalOr(p) == LogicalOrLoop(p, NoNode, <<>>)

RECURSIVE LogicalAndLoop(_, _, _)
LogicalAndLoop(p, left, operator) ==
    Let(parseEquality(p), LAMBDA operand :
    IF operand.st # "ok" THEN operand
    ELSE IF currentToken(operand.p).value \in {keywords.and}
    THEN LogicalAndLoop(nextToken(operand.p),
             Join("LogicalExpression", left, operator, operand.node),
             currentToken(operand.p).value)
    ELSE Ok(operand.p, Join("LogicalExpression", left, operator, operand.node)))

parseLogicalAnd(p) == LogicalAndLoop(p, NoNode, <<>>)

RECURSIVE EqualityLoop(_, _, _)
EqualityLoop(p, left, operator) ==
    Let(parseRelational(p), LAMBDA operand :
    IF operand.st # "ok" THEN operand
    ELSE IF currentToken(operand.p).value \in {<<"=", "=">>, <<"!", "=">>}
    THEN EqualityLoop(nextToken(operand.p),
             Join("BinaryExpression", left, operator, operand.node),
             currentToken(operand.p).value)
    ELSE Ok(operand.p, Join("BinaryExpression", left, operator, operand.node)))

parseEquality(p) == EqualityLoop(p, NoNode, <<>>)

RECURSIVE RelationalLoop(_, _, _)
RelationalLoop(p, left, operator) ==
    Let(parseAdditive(p), LAMBDA operand :
    IF operand.st # "ok" THEN operand
    ELSE IF currentToken(operand.p).value \in {<<"<">>, <<"<", "=">>, <<">">>, <<">", "=">>}
    THEN RelationalLoop(nextToken(operand.p),
             Join("BinaryExpression", left, operator, operand.node),
             currentToken(operand.p).value)
    ELSE Ok(operand.p, Join("BinaryExpression", left, operator, operand.node)))

parseRelational(p) == RelationalLoop(p, NoNode, <<>>)

RECURSIVE AdditiveLoop(_, _, _)
AdditiveLoop(p, left, operator) ==
    Let(parseMultiplicative(p), LAMBDA operand :
    IF operand.st # "ok" THEN operand
    ELSE IF currentToken(operand.p).value \in {<<"+">>, <<"-">>}
    THEN AdditiveLoop(nextToken(operand.p),
             Join("BinaryExpression", left, operator, operand.node),
             currentToken(operand.p).value)
    ELSE Ok(operand.p, Join("BinaryExpression", left, operator, operand.node)))

parseAdditive(p) == AdditiveLoop(p, NoNode, <<>>)

RECURSIVE MultiplicativeLoop(_, _, _)
MultiplicativeLoop(p, left, operator) ==
    Let(parseUnary(p), LAMBDA operand :
    IF operand.st # "ok" THEN operand
    ELSE IF currentToken(operand.p).value \in {<<"*">>, <<"/">>, <<"%">>}
    THEN MultiplicativeLoop(nextToken(operand.p),
             Join("BinaryExpression", left, operator, operand.node),
             currentToken(operand.p).value)
    ELSE Ok(operand.p, Join("BinaryExpression", left, operator, operand.node)))

parseMultiplicative(p) == MultiplicativeLoop(p, NoNode, <<>>)

\* variant: `not` applies to all of the equality that follows it
parseUnary_Loose(p) ==
    IF currentToken(p).value = keywords.not
    THEN LET opToken == currentToken(p) IN
         Let(parseEquality(nextToken(p)), LAMBDA argument :
         IF argument.st # "ok" THEN argument
         ELSE Ok(argument.p,
                 [type |-> "UnaryExpression", operator |-> keywords.not,
                  argument |-> argument.node,
                  start |-> opToken.start, end |-> argument.node.end]))
    ELSE parsePrimary(p)

parseUnary(p) ==
    IF currentToken(p).value = keywords.not
    THEN LET opToken == currentToken(p) IN
         Let(parseUnary(nextToken(p)), LAMBDA argument :
         IF argument.st # "ok" THEN argument
         ELSE Ok(argument.p,
                 [type |-> "UnaryExpression", operator |-> keywords.not,
                  argument |-> argument.node,
                  start |-> opToken.start, end |-> argument.node.end]))
    ELSE parsePrimary(p)

\* vtype is `typeof value` of the literal ("null" for the value null); the
\* number Number(raw) itself is kept as its raw text.
Literal(vtype, token) ==
    [type |-> "Literal", vtype |-> vtype, raw |-> token.value,
     start |-> token.start, end |-> token.end]

parsePrimary(p) ==
    LET token == currentToken(p) IN
    IF token = Null THEN Throw(p, Msg("Unexpected end of input", -1))
    ELSE IF token.type = "NUMBER" THEN Ok(nextToken(p), Literal("number", token))
    ELSE IF token.type = "STRING" THEN Ok(nextToken(p), Literal("string", token))
    ELSE IF token.value = keywords.true \/ token.value = keywords.false
    THEN Ok(nextToken(p), Literal("boolean", token))
    ELSE IF token.value = keywords.nil THEN Ok(nextToken(p), Literal("null", token))
    ELSE IF token.type = "IDENTIFIER"
    THEN LET identifier == [type |-> "Identifier", name |-> token.value,
                            start |-> token.start, end |-> token.end]
             p1 == nextToken(p)
         IN IF currentToken(p1).value = Sym("(")
            THEN parseCallExpression(p1, identifier)
            ELSE IF currentToken(p1).value = Sym(".")
            THEN parseMemberExpression(p1, identifier)
            ELSE Ok(p1, identifier)
    ELSE IF token.value = Sym("(")
    THEN Let(parseExpression(nextToken(p)), LAMBDA expr :
         IF expr.st # "ok" THEN expr
         ELSE IF currentToken(expr.p).value # Sym(")")
         THEN ThrowAt(expr.p, "Expected ')'")
         ELSE Ok(nextToken(expr.p), expr.node))
    ELSE IF token.value = Sym("[") THEN parseArrayExpression(p)
    ELSE IF token.value = Sym("{") THEN parseObjectExpression(p)
    ELSE Throw(p, Msg("Unexpected token", token.start))

\* the `, expr` loop shared in shape by call arguments and array elements:
\* r holds the list parsed so far as r.node
RECURSIVE ExpressionListLoop(_)
ExpressionListLoop(r) ==
    IF r.st # "ok" THEN r
    ELSE IF currentToken(r.p).value = Sym(",")
    THEN Let(parseExpression(nextToken(r.p)), LAMBDA e :
         IF e.st # "ok" THEN e
         ELSE ExpressionListLoop(Ok(e.p, Append(r.node, e.node))))
    ELSE r

ExpressionList(p, close) ==
    IF currentToken(p) # Null /\ currentToken(p).value # close
    THEN Let(parseExpression(p), LAMBDA e :
         IF e.st # "ok" THEN e
         ELSE ExpressionListLoop(Ok(e.p, <<e.node>>)))
    ELSE Ok(p, <<>>)

parseCallExpression(p, callee) ==
    IF currentToken(p).value # Sym("(")
    THEN ThrowAt(p, "Expected '(' for function call")
    ELSE Let(ExpressionList(nextToken(p), Sym(")")), LAMBDA args :
         IF args.st # "ok" THEN args
         ELSE IF currentToken(args.p).value # Sym(")")
         THEN ThrowAt(args.p, "Expected ')' to close function call")
         ELSE LET endToken == currentToken(args.p) IN
              Ok(nextToken(args.p),
                 [type |-> "CallExpression", callee |-> callee,
                  arguments |-> args.node,
                  start |-> callee.start, end |-> endToken.end]))

parseMemberExpression(p, object) ==
    IF currentToken(p).value # Sym(".")
    THEN ThrowAt(p, "Expected '.' for member access")
    ELSE LET p1 == nextToken(p) IN
         IF currentToken(p1).type # "IDENTIFIER"
         THEN ThrowAt(p1, "Expected identifier after '.'")
         ELSE LET property == [type |-> "Identifier", name |-> currentToken(p1).value,
                               start |-> currentToken(p1).start,
                               end |-> currentToken(p1).end]
                  member == [type |-> "MemberExpression", object |-> object,
                             property |-> property,
                             start |-> object.start, end |-> property.end]
                  p2 == nextToken(p1)
              IN IF currentToken(p2).value = Sym("(")
                 THEN parseCallExpression(p2, member)
                 ELSE Ok(p2, member)

parseArrayExpression(p) ==
    LET startToken == currentToken(p) IN
    Let(ExpressionList(nextToken(p), Sym("]")), LAMBDA elements :
    IF elements.st # "ok" THEN elements
    ELSE IF currentToken(elements.p).value # Sym("]")
    THEN ThrowAt(elements.p, "Expected ']' to close array")
    ELSE LET endToken == currentToken(elements.p) IN
         Ok(nextToken(elements.p),
            [type |-> "ArrayExpression", elements |-> elements.node,
             start |-> startToken.start, end |-> endToken.end]))

parseObjectProperty(p) ==
    IF currentToken(p).type # "STRING"
    THEN ThrowAt(p, "Expected string key for object property")
    ELSE LET key == currentToken(p)
             p1 == nextToken(p)
         IN IF currentToken(p1).value # Sym(":")
            THEN ThrowAt(p1, "Expected ':' after object property key")
            ELSE Let(parseExpression(nextToken(p1)), LAMBDA value :
                 IF value.st # "ok" THEN value
                 ELSE Ok(value.p,
                         [type |-> "Property", key |-> key, value |-> value.node,
                          start |-> key.start, end |-> value.node.end]))

RECURSIVE ObjectPropertyLoop(_)
ObjectPropertyLoop(r) ==
    IF r.st # "ok" THEN r
    ELSE IF currentToken(r.p).value = Sym(",")
    THEN Let(parseObjectProperty(nextToken(r.p)), LAMBDA prop :
         IF prop.st # "ok" THEN prop
         ELSE ObjectPropertyLoop(Ok(prop.p, Append(r.node, prop.node))))
    ELSE r

parseObjectExpression(p) ==
    LET startToken == currentToken(p)
        p1 == nextToken(p)
    IN
    Let(IF currentToken(p1) # Null /\ currentToken(p1).value # Sym("}")
        THEN Let(parseObjectProperty(p1), LAMBDA prop :
             IF prop.st # "ok" THEN prop
             ELSE ObjectPropertyLoop(Ok(prop.p, <<prop.node>>)))
        ELSE Ok(p1, <<>>), LAMBDA properties :
    IF properties.st # "ok" THEN properties
    ELSE IF currentToken(properties.p).value # Sym("}")
    THEN ThrowAt(properties.p, "Expected '}' to close object")
    ELSE LET endToken == currentToken(properties.p) IN
         Ok(nextToken(properties.p),
            [type |-> "ObjectExpression", properties |-> properties.node,
             start |-> startToken.start, end |-> endToken.end]))

parseExpression(p) == parseLogicalOr(p)

(***************************************************************************)
(* Statements.                                                             *)
(***************************************************************************)
RECURSIVE parseStatement(_), parseBlock(_), parseIfStatement(_),
          parseWhileStatement(_), parseForStatement(_),
          parseFunctionDeclaration(_), parseClassDeclaration(_)

isTypeKeyword(value) ==
    value \in {keywords.int, keywords.float, keywords.string, keywords.bool,
               keywords.array, keywords.object, keywords.any}

isStatementStart(token) ==
    token.value \in {keywords.var, keywords.if, keywords.while, keywords.for,
                     keywords.fun, keywords.class, keywords.return}
    \/ token.type = "IDENTIFIER"

\* variant: the scan also consumes a `}` it stops at
RECURSIVE skipToNextStatement_ConsumesCloser(_)
skipToNextStatement_ConsumesCloser(p) ==
    LET token == currentToken(p) IN
    IF token = Null THEN p
    ELSE IF token.value = Sym(";") \/ token.value = Sym("}") THEN nextToken(p)
    ELSE IF token.value = Sym("{") THEN p
    ELSE IF isStatementStart(token) THEN p
    ELSE skipToNextStatement_ConsumesCloser(nextToken(p))

RECURSIVE skipToNextStatement(_)
skipToNextStatement(p) ==
    LET token == currentToken(p) IN
    IF token = Null THEN p
    ELSE IF token.value = Sym(";") THEN nextToken(p)
    ELSE IF token.value = Sym("}") \/ token.value = Sym("{") THEN p
    ELSE IF isStatementStart(token) THEN p
    ELSE skipToNextStatement(nextToken(p))

MissingSemicolonDeclaration == "Missing semicolon at end of variable declaration"
MissingSemicolonStatement == "Missing semicolon at end of statement"
MissingSemicolonAssignment == "Missing semicolon at end of assignment"

\* variant: the missing semicolon goes unreported
MissingSemicolon_Silent(p, text, from, node) == Ok(p, node)

\* variant: the missing semicolon is reported and the statement dropped
MissingSemicolon_Fatal(p, text, from, node) ==
    Ok(addError(p, Msg(text, -1), from, findEndOfLine(p, from)), NoNode)

\* the branch taken when the statement is not followed by `;`: the error
\* spans from `from` to the end of that line and the node is still returned
MissingSemicolon(p, text, from, node) ==
    Ok(addError(p, Msg(text, -1), from, findEndOfLine(p, from)), node)

parseVariableDeclaration(p) ==
    LET startToken == currentToken(p)
        p1 == nextToken(p)
        typed == isTypeKeyword(currentToken(p1).value)
        declaredType == IF typed THEN currentToken(p1).value ELSE NoType
        p2 == IF typed THEN nextToken(p1) ELSE p1
    IN
    IF currentToken(p2).type # "IDENTIFIER" THEN ThrowAt(p2, "Expected identifier")
    ELSE
    LET nameToken == currentToken(p2)
        p3 == nextToken(p2)
    IN
    Let(IF currentToken(p3).value = Sym("=")
        THEN parseExpression(nextToken(p3))
        ELSE Ok(p3, NoNode), LAMBDA init :
    IF init.st # "ok" THEN init
    ELSE IF currentToken(init.p).value = Sym(";")
    THEN LET p5 == nextToken(init.p) IN
         Ok(p5, [type |-> "VariableDeclaration", declaredType |-> declaredType,
                 name |-> nameToken.value, init |-> init.node,
                 start |-> startToken.start,
                 end |-> IF currentToken(p5) # Null THEN currentToken(p5).start
                         ELSE nameToken.end + 1])
    ELSE MissingSemicolon(init.p, MissingSemicolonDeclaration, nameToken.end,
            [type |-> "VariableDeclaration", declaredType |-> declaredType,
             name |-> nameToken.value, init |-> init.node,
             start |-> startToken.start, end |-> nameToken.end]))

parseAssignmentExpression(p, left) ==
    IF currentToken(p).value # Sym("=") THEN ThrowAt(p, "Expected '=' in assignment")
    ELSE
    Let(parseExpression(nextToken(p)), LAMBDA right :
    IF right.st # "ok" THEN right
    ELSE IF currentToken(right.p).value = Sym(";")
    THEN LET p2 == nextToken(right.p) IN
         Ok(p2, [type |-> "AssignmentExpression", operator |-> Sym("="),
                 left |-> left, right |-> right.node, start |-> left.start,
                 end |-> IF currentToken(p2) # Null THEN currentToken(p2).start
                         ELSE right.node.end + 1])
    ELSE MissingSemicolon(right.p, MissingSemicolonAssignment, right.node.end,
            [type |-> "AssignmentExpression", operator |-> Sym("="),
             left |-> left, right |-> right.node,
             start |-> left.start, end |-> right.node.end]))

parseExpressionStatement(p) ==
    Let(parseExpression(p), LAMBDA expr :
    IF expr.st # "ok" THEN expr
    ELSE IF expr.node.type = "Identifier" /\ currentToken(expr.p).value = Sym("=")
    THEN parseAssignmentExpression(expr.p, expr.node)
    ELSE IF currentToken(expr.p).value = Sym(";")
    THEN LET p2 == nextToken(expr.p) IN
         Ok(p2, [type |-> "ExpressionStatement", expression |-> expr.node,
                 start |-> expr.node.start,
                 end |-> IF currentToken(p2) # Null THEN currentToken(p2).start
                         ELSE expr.node.end + 1])
    ELSE MissingSemicolon(expr.p, MissingSemicolonStatement, expr.node.end,
            [type |-> "ExpressionStatement", expression |-> expr.node,
             start |-> expr.node.start, end |-> expr.node.end]))

parseReturnStatement(p) ==
    LET startToken == currentToken(p)
        p1 == nextToken(p)
    IN
    Let(IF currentToken(p1) # Null /\ currentToken(p1).value # Sym(";")
           /\ currentToken(p1).value # Sym("}")
           /\ currentToken(p1).value # Sym("\n")
        THEN parseExpression(p1)
        ELSE Ok(p1, NoNode), LAMBDA argument :
    IF argument.st # "ok" THEN argument
    ELSE LET p2 == IF currentToken(argument.p).value = Sym(";")
                   THEN nextToken(argument.p) ELSE argument.p
         IN Ok(p2, [type |-> "ReturnStatement", argument |-> argument.node,
                    start |-> startToken.start,
                    end |-> IF argument.node # NoNode THEN argument.node.end
                            ELSE startToken.end + 6]))

\* `end: this.currentToken() ? this.currentToken().end : startToken.end`
EndAfter(p, startToken) ==
    IF currentToken(p) # Null THEN currentToken(p).end ELSE startToken.end

\* the `(` test `)` header shared in shape by if and while
ParenthesizedTest(p, open, close) ==
    IF currentToken(p).value # Sym("(") THEN ThrowAt(p, open)
    ELSE Let(parseExpression(nextToken(p)), LAMBDA test :
         IF test.st # "ok" THEN test
         ELSE IF currentToken(test.p).value # Sym(")") THEN ThrowAt(test.p, close)
         ELSE Ok(nextToken(test.p), test.node))

parseIfStatement(p) ==
    LET startToken == currentToken(p) IN
    Let(ParenthesizedTest(nextToken(p), "Expected '(' after 'if'",
                          "Expected ')' after if condition"), LAMBDA test :
    IF test.st # "ok" THEN test
    ELSE
    Let(parseBlock(test.p), LAMBDA consequent :
    IF consequent.st # "ok" THEN consequent
    ELSE
    Let(IF currentToken(consequent.p).value = keywords.else
        THEN LET p1 == nextToken(consequent.p) IN
             IF currentToken(p1).value = keywords.if
             THEN parseIfStatement(p1)
             ELSE parseBlock(p1)
        ELSE Ok(consequent.p, NoNode), LAMBDA alternate :
    IF alternate.st # "ok" THEN alternate
    ELSE Ok(alternate.p,
            [type |-> "IfStatement", test |-> test.node,
             consequent |-> consequent.node, alternate |-> alternate.node,
             start |-> startToken.start,
             end |-> EndAfter(alternate.p, startToken)]))))

\* the statement loop of a brace-delimited block.  An iteration that
\* returns with the parser unchanged while the loop condition still holds
\* repeats forever: the loop never exits.
RECURSIVE BlockLoop(_, _)
BlockLoop(p, body) ==
    IF p.position < Len(p.tokens) /\ currentToken(p).value # Sym("}")
    THEN Let(parseStatement(p), LAMBDA stmt :
         IF stmt.st # "ok" THEN stmt
         ELSE IF stmt.p = p THEN Hang(p)
         ELSE BlockLoop(stmt.p, IF stmt.node # NoNode THEN Append(body, stmt.node)
                                ELSE body))
    ELSE Ok(p, body)

parseBlock(p) ==
    IF currentToken(p).value = Sym("{")
    THEN Let(BlockLoop(nextToken(p), <<>>), LAMBDA loop :
         IF loop.st # "ok" THEN loop
         ELSE Ok(IF currentToken(loop.p) # Null THEN nextToken(loop.p) ELSE loop.p,
                 [type |-> "BlockStatement", body |-> loop.node]))
    ELSE Let(parseStatement(p), LAMBDA stmt :
         IF stmt.st # "ok" THEN stmt
         ELSE Ok(stmt.p, [type |-> "BlockStatement", body |-> <<stmt.node>>]))

parseWhileStatement(p) ==
    LET startToken == currentToken(p) IN
    Let(ParenthesizedTest(nextToken(p), "Expected '(' after 'while'",
                          "Expected ')' after while condition"), LAMBDA test :
    IF test.st # "ok" THEN test
    ELSE
    Let(parseBlock(test.p), LAMBDA body :
    IF body.st # "ok" THEN body
    ELSE Ok(body.p, [type |-> "WhileStatement", test |-> test.node,
                     body |-> body.node,
                     start |-> startToken.start,
                     end |-> EndAfter(body.p, startToken)])))

\* one clause of the for header: empty when the current token is `stop`;
\* `this.currentToken().value` raises a TypeError at end of input
ForClause(p, stop, allowVar) ==
    IF currentToken(p) = Null THEN Throw(p, TypeErrorMsg)
    ELSE IF currentToken(p).value # stop
    THEN IF allowVar /\ currentToken(p).value = keywords.var
         THEN parseVariableDeclaration(p)
         ELSE parseExpression(p)
    ELSE Ok(p, NoNode)

parseForStatement(p) ==
    LET startToken == currentToken(p)
        p1 == nextToken(p)
    IN
    IF currentToken(p1).value # Sym("(") THEN ThrowAt(p1, "Expected '(' after 'for'")
    ELSE
    Let(ForClause(nextToken(p1), Sym(";"), TRUE), LAMBDA init :
    IF init.st # "ok" THEN init
    ELSE IF currentToken(init.p).value # Sym(";")
    THEN ThrowAt(init.p, "Expected ';' after for init")
    ELSE
    Let(ForClause(nextToken(init.p), Sym(";"), FALSE), LAMBDA test :
    IF test.st # "ok" THEN test
    ELSE IF currentToken(test.p).value # Sym(";")
    THEN ThrowAt(test.p, "Expected ';' after for test")
    ELSE
    Let(ForClause(nextToken(test.p), Sym(")"), FALSE), LAMBDA update :
    IF update.st # "ok" THEN update
    ELSE IF currentToken(update.p).value # Sym(")")
    THEN ThrowAt(update.p, "Expected ')' after for update")
    ELSE
    Let(parseBlock(nextToken(update.p)), LAMBDA body :
    IF body.st # "ok" THEN body
    ELSE Ok(body.p, [type |-> "ForStatement", init |-> init.node, test |-> test.node,
                     update |-> update.node, body |-> body.node,
                     start |-> startToken.start,
                     end |-> EndAfter(body.p, startToken)])))))

RECURSIVE ParameterLoop(_, _)
ParameterLoop(p, params) ==
    IF currentToken(p).value = Sym(",")
    THEN LET p1 == nextToken(p) IN
         IF currentToken(p1).type = "IDENTIFIER"
         THEN ParameterLoop(nextToken(p1), Append(params, currentToken(p1).value))
         ELSE ParameterLoop(p1, params)
    ELSE [p |-> p, params |-> params]

ParameterList(p) ==
    IF currentToken(p) # Null /\ currentToken(p).value # Sym(")")
    THEN IF currentToken(p).type = "IDENTIFIER"
         THEN ParameterLoop(nextToken(p), <<currentToken(p).value>>)
         ELSE ParameterLoop(p, <<>>)
    ELSE [p |-> p, params |-> <<>>]

IdentifierOf(token) ==
    [type |-> "Identifier", name |-> token.value,
     start |-> token.start, end |-> token.end]

parseFunctionDeclaration(p) ==
    LET startToken == currentToken(p)
        p1 == nextToken(p)
    IN
    IF currentToken(p1).type # "IDENTIFIER"
    THEN ThrowAt(p1, "Expected function name after 'fun'")
    ELSE
    LET nameToken == currentToken(p1)
        p2 == nextToken(p1)
    IN
    IF currentToken(p2).value # Sym("(")
    THEN ThrowAt(p2, "Expected '(' after function name")
    ELSE
    Let(ParameterList(nextToken(p2)), LAMBDA params :
    IF currentToken(params.p).value # Sym(")")
    THEN ThrowAt(params.p, "Expected ')' after function parameters")
    ELSE
    Let(parseBlock(nextToken(params.p)), LAMBDA body :
    IF body.st # "ok" THEN body
    ELSE Ok(body.p, [type |-> "FunctionDeclaration", id |-> IdentifierOf(nameToken),
                     params |-> params.params, body |-> body.node,
                     start |-> startToken.start,
                     end |-> EndAfter(body.p, startToken)])))

parseClassDeclaration(p) ==
    LET startToken == currentToken(p)
        p1 == nextToken(p)
    IN
    IF currentToken(p1).type # "IDENTIFIER"
    THEN ThrowAt(p1, "Expected class name after 'class'")
    ELSE
    LET nameToken == currentToken(p1)
        p2 == nextToken(p1)
    IN
    IF currentToken(p2).value # Sym("{")
    THEN ThrowAt(p2, "Expected '{' to start class body")
    ELSE
    Let(parseBlock(p2), LAMBDA body :
    IF body.st # "ok" THEN body
    ELSE Ok(body.p, [type |-> "ClassDeclaration", id |-> IdentifierOf(nameToken),
                     body |-> body.node,
                     start |-> startToken.start,
                     end |-> EndAfter(body.p, startToken)]))

\* variant: a token that starts no statement is an error
Dispatch_StrayIsError(p, token) ==
    IF token.value = keywords.var THEN parseVariableDeclaration(p)
    ELSE IF token.value = keywords.if THEN parseIfStatement(p)
    ELSE IF token.value = keywords.while THEN parseWhileStatement(p)
    ELSE IF token.value = keywords.for THEN parseForStatement(p)
    ELSE IF token.value = keywords.fun THEN parseFunctionDeclaration(p)
    ELSE IF token.value = keywords.class THEN parseClassDeclaration(p)
    ELSE IF token.value = keywords.return THEN parseReturnStatement(p)
    ELSE IF token.type = "IDENTIFIER" THEN parseExpressionStatement(p)
    ELSE Throw(p, Msg("Unexpected token", token.start))

\* the statement parsers behind the dispatch of parseStatement
Dispatch(p, token) ==
    IF token.value = keywords.var THEN parseVariableDeclaration(p)
    ELSE IF token.value = keywords.if THEN parseIfStatement(p)
    ELSE IF token.value = keywords.while THEN parseWhileStatement(p)
    ELSE IF token.value = keywords.for THEN parseForStatement(p)
    ELSE IF token.value = keywords.fun THEN parseFunctionDeclaration(p)
    ELSE IF token.value = keywords.class THEN parseClassDeclaration(p)
    ELSE IF token.value = keywords.return THEN parseReturnStatement(p)
    ELSE IF token.type = "IDENTIFIER" THEN parseExpressionStatement(p)
    ELSE Ok(skipToNextStatement(p), NoNode)

parseStatement(p) ==
    LET token == currentToken(p) IN
    IF token = Null THEN Ok(p, NoNode)
    ELSE Let(Dispatch(p, token), LAMBDA r :
         IF r.st = "throw"
         THEN Ok(skipToNextStatement(addError(r.p, r.msg, token.start, token.end)),
                 NoNode)
         ELSE r)

(***************************************************************************)
(* TypeChecker.  The checker object: tc = [symbolTable, errors]; the       *)
(* symbol table is a function from the tracked names to their type.        *)
(***************************************************************************)
NewTypeChecker(errs) == [symbolTable |-> <<>>, errors |-> errs]

\* symbolTable.get(name); NoType stands for undefined
SymbolGet(table, name) == IF name \in DOMAIN table THEN table[name] ELSE NoType

\* symbolTable.set(name, type)
SymbolSet(table, name, type) ==
    [n \in DOMAIN table \cup {name} |-> IF n = name THEN type ELSE table[n]]

\* the loop `for (let i = 0; i < index && i < text.length; i++)` from i on,
\* with line and char as they are before iteration i
RECURSIVE CountLineChar(_, _, _, _, _)
CountLineChar(text, index, i, line, char) ==
    IF i < index /\ i < Len(text)
    THEN IF i + 1 = index \/ i + 1 = Len(text)
         THEN \* the last iteration
              IF At(text, i) = "\n"
              THEN [line |-> line + 1, character |-> 0]
              ELSE [line |-> line, character |-> char + 1]
         ELSE \* the iterations up to the middle, then the rest
              CHOOSE last \in
                  {CountLineChar(text, index, (i + index) \div 2,
                                 mid.line, mid.character) :
                      mid \in {CountLineChar(text, (i + index) \div 2, i,
                                             line, char)}} : TRUE
    ELSE [line |-> line, character |-> char]

getPositionFromIndex(document, index) == CountLineChar(document, index, 0, 0, 0)

\* variant: float and int are compatible in both directions
isCompatibleType_Symmetric(expected, actual) ==
    IF expected = actual THEN TRUE
    ELSE IF expected = keywords.any \/ actual = keywords.any THEN TRUE
    ELSE IF expected \in {keywords.float, keywords.int}
            /\ actual \in {keywords.float, keywords.int} THEN TRUE
    ELSE IF actual = keywords.nil THEN TRUE
    ELSE FALSE

isCompatibleType(expected, actual) ==
    IF expected = actual THEN TRUE
    ELSE IF expected = keywords.any \/ actual = keywords.any THEN TRUE
    ELSE IF expected = keywords.float /\ actual = keywords.int THEN TRUE
    ELSE IF actual = keywords.nil THEN TRUE
    ELSE FALSE

ComparisonOperators ==
    {<<"=", "=">>, <<"!", "=">>, <<"<">>, <<"<", "=">>, <<">">>, <<">", "=">>,
     keywords.and, keywords.or}
ArithmeticOperators == {<<"+">>, <<"-">>, <<"*">>, <<"/">>, <<"%">>}

Includes(s, c) == \E i \in 1..Len(s) : s[i] = c

\* variant: division of two ints is an int
ArithmeticType_IntDivision(leftType, rightType, operator) ==
    IF leftType = keywords.int /\ rightType = keywords.int
    THEN keywords.int ELSE keywords.float

\* the type of `left <operator> right` for an arithmetic operator
ArithmeticType(leftType, rightType, operator) ==
    IF leftType = keywords.int /\ rightType = keywords.int /\ operator # <<"/">>
    THEN keywords.int
    ELSE keywords.float

RECURSIVE inferType(_, _)
inferType(node, table) ==
    IF node.type = "null" THEN keywords.any
    ELSE IF node.type = "Literal"
    THEN IF node.vtype = "number"
         \* a raw text of digits only is an integer
         THEN IF Includes(node.raw, ".") THEN keywords.float ELSE keywords.int
         ELSE IF node.vtype = "string"
                 /\ (At(node.raw, 0) = "\"" \/ At(node.raw, 0) = "'")
         THEN keywords.string
         ELSE IF node.vtype = "boolean" THEN keywords.bool
         ELSE keywords.any
    ELSE IF node.type = "ArrayExpression" THEN keywords.array
    ELSE IF node.type = "ObjectExpression" THEN keywords.object
    ELSE IF node.type = "Identifier"
    THEN IF SymbolGet(table, node.name) # NoType
         THEN SymbolGet(table, node.name) ELSE keywords.any
    ELSE IF node.type \in {"BinaryExpression", "LogicalExpression"}
    THEN IF node.operator \in ComparisonOperators THEN keywords.bool
         ELSE IF node.operator \in ArithmeticOperators
         THEN ArithmeticType(inferType(node.left, table),
                             inferType(node.right, table), node.operator)
         ELSE keywords.any
    ELSE IF node.type = "UnaryExpression"
    THEN IF node.operator = keywords.not THEN keywords.bool
         ELSE inferType(node.argument, table)
    ELSE keywords.any

\* `Type mismatch: expected E but got A for variable 'N'` (where = "for
\* variable") and `... when assigning to 'N'` (where = "when assigning to")
TypeMismatch(expected, actual, where, name) ==
    [text |-> "Type mismatch", expected |-> expected, actual |-> actual,
     where |-> where, name |-> name]

Diagnostic(document, start, end, message) ==
    [severity |-> 1,
     range |-> [start |-> getPositionFromIndex(document, start),
                end |-> getPositionFromIndex(document, end)],
     message |-> message]

RECURSIVE checkNode(_, _, _), CheckEach(_, _, _)

\* variant: the diagnostic is placed on the declaration, not the initializer
checkVariableDeclaration_DeclarationRange(node, document, tc) ==
    IF node.declaredType = NoType
    THEN checkNode(node.init, document,
                   [tc EXCEPT !.symbolTable = SymbolSet(@, node.name, keywords.any)])
    ELSE IF node.init # NoNode
    THEN LET actualType == inferType(node.init, tc.symbolTable) IN
         IF ~isCompatibleType(node.declaredType, actualType)
         THEN [tc EXCEPT !.errors =
                  Append(@, Diagnostic(document, node.start, node.end,
                             TypeMismatch(node.declaredType, actualType,
                                          "for variable", node.name)))]
         ELSE [tc EXCEPT !.symbolTable = SymbolSet(@, node.name, node.declaredType)]
    ELSE [tc EXCEPT !.symbolTable = SymbolSet(@, node.name, node.declaredType)]

\* variant: the name is registered also when the initializer mismatches
checkVariableDeclaration_Registers(node, document, tc) ==
    IF node.declaredType = NoType
    THEN checkNode(node.init, document,
                   [tc EXCEPT !.symbolTable = SymbolSet(@, node.name, keywords.any)])
    ELSE IF node.init # NoNode
    THEN LET actualType == inferType(node.init, tc.symbolTable) IN
         IF ~isCompatibleType(node.declaredType, actualType)
         THEN [tc EXCEPT !.errors =
                  Append(@, Diagnostic(document, node.init.start, node.init.end,
                             TypeMismatch(node.declaredType, actualType,
                                          "for variable", node.name))),
                         !.symbolTable = SymbolSet(@, node.name, node.declaredType)]
         ELSE [tc EXCEPT !.symbolTable = SymbolSet(@, node.name, node.declaredType)]
    ELSE [tc EXCEPT !.symbolTable = SymbolSet(@, node.name, node.declaredType)]

\* variant: an untyped declaration keeps the type the name already has
checkVariableDeclaration_KeepsType(node, document, tc) ==
    IF node.declaredType = NoType
    THEN checkNode(node.init, document,
                   IF SymbolGet(tc.symbolTable, node.name) # NoType THEN tc
                   ELSE [tc EXCEPT !.symbolTable = SymbolSet(@, node.name, keywords.any)])
    ELSE IF node.init # NoNode
    THEN LET actualType == inferType(node.init, tc.symbolTable) IN
         IF ~isCompatibleType(node.declaredType, actualType)
         THEN [tc EXCEPT !.errors =
                  Append(@, Diagnostic(document, node.init.start, node.init.end,
                             TypeMismatch(node.declaredType, actualType,
                                          "for variable", node.name)))]
         ELSE [tc EXCEPT !.symbolTable = SymbolSet(@, node.name, node.declaredType)]
    ELSE [tc EXCEPT !.symbolTable = SymbolSet(@, node.name, node.declaredType)]

checkVariableDeclaration(node, document, tc) ==
    IF node.declaredType = NoType
    THEN checkNode(node.init, document,
                   [tc EXCEPT !.symbolTable = SymbolSet(@, node.name, keywords.any)])
    ELSE IF node.init # NoNode
    THEN LET actualType == inferType(node.init, tc.symbolTable) IN
         IF ~isCompatibleType(node.declaredType, actualType)
         THEN [tc EXCEPT !.errors =
                  Append(@, Diagnostic(document, node.init.start, node.init.end,
                             TypeMismatch(node.declaredType, actualType,
                                          "for variable", node.name)))]
         ELSE [tc EXCEPT !.symbolTable = SymbolSet(@, node.name, node.declaredType)]
    ELSE [tc EXCEPT !.symbolTable = SymbolSet(@, node.name, node.declaredType)]

\* variant: an assignment retypes the name to the type assigned
checkAssignmentExpression_Retypes(node, document, tc) ==
    IF node.left.type = "Identifier" /\ node.right # NoNode
    THEN LET varName == node.left.name
             declaredType == SymbolGet(tc.symbolTable, varName)
             actualType == inferType(node.right, tc.symbolTable)
             checked ==
                 IF declaredType # NoType /\ declaredType # keywords.any
                 THEN IF ~isCompatibleType(declaredType, actualType)
                      THEN [tc EXCEPT !.errors =
                               Append(@, Diagnostic(document, node.right.start,
                                          node.right.end,
                                          TypeMismatch(declaredType, actualType,
                                                       "when assigning to", varName))),
                                      !.symbolTable = SymbolSet(@, varName, actualType)]
                      ELSE [tc EXCEPT !.symbolTable = SymbolSet(@, varName, actualType)]
                 ELSE tc
         IN checkNode(node.right, document, checked)
    ELSE tc

checkAssignmentExpression(node, document, tc) ==
    IF node.left.type = "Identifier" /\ node.right # NoNode
    THEN LET varName == node.left.name
             declaredType == SymbolGet(tc.symbolTable, varName)
             checked ==
                 IF declaredType # NoType /\ declaredType # keywords.any
                 THEN LET actualType == inferType(node.right, tc.symbolTable) IN
                      IF ~isCompatibleType(declaredType, actualType)
                      THEN [tc EXCEPT !.errors =
                               Append(@, Diagnostic(document, node.right.start,
                                          node.right.end,
                                          TypeMismatch(declaredType, actualType,
                                                       "when assigning to", varName)))]
                      ELSE tc
                 ELSE tc
         IN checkNode(node.right, document, checked)
    ELSE tc

\* variant: the body of a class is not visited
Children_NoClassBody(node) ==
    IF node.type = "BlockStatement" THEN node.body
    ELSE IF node.type = "FunctionDeclaration" THEN <<node.id, node.body>>
    ELSE IF node.type = "ClassDeclaration" THEN <<node.id>>
    ELSE IF node.type = "LogicalExpression" THEN <<node.left, node.right>>
    ELSE IF node.type = "UnaryExpression" THEN <<node.argument>>
    ELSE IF node.type = "MemberExpression" THEN <<node.object, node.property>>
    ELSE IF node.type = "ArrayExpression" THEN node.elements
    ELSE IF node.type = "ObjectExpression" THEN node.properties
    ELSE IF node.type = "Property" THEN <<node.key, node.value>>
    ELSE <<>>

\* the object-valued fields of a node in the order of its construction,
\* which is the order checkChildren visits them in (the parameter names of
\* a function are strings, in which checkChildren finds nothing)
Children(node) ==
    IF node.type = "BlockStatement" THEN node.body
    ELSE IF node.type = "FunctionDeclaration" THEN <<node.id, node.body>>
    ELSE IF node.type = "ClassDeclaration" THEN <<node.id, node.body>>
    ELSE IF node.type = "LogicalExpression" THEN <<node.left, node.right>>
    ELSE IF node.type = "UnaryExpression" THEN <<node.argument>>
    ELSE IF node.type = "MemberExpression" THEN <<node.object, node.property>>
    ELSE IF node.type = "ArrayExpression" THEN node.elements
    ELSE IF node.type = "ObjectExpression" THEN node.properties
    ELSE IF node.type = "Property" THEN <<node.key, node.value>>
    ELSE <<>>

\* `for (const item of nodes) this.checkNode(item, document)`
CheckEach(nodes, document, tc) ==
    IF nodes = <<>> THEN tc
    ELSE CheckEach(Tail(nodes), document, checkNode(Head(nodes), document, tc))

\* variant: the symbol table is restored when the children are done
checkChildren_Scoped(node, document, tc) ==
    [CheckEach(Children(node), document, tc) EXCEPT !.symbolTable = tc.symbolTable]

checkChildren(node, document, tc) == CheckEach(Children(node), document, tc)

checkNode(node, document, tc) ==
    IF node.type = "null" THEN tc
    ELSE IF node.type = "VariableDeclaration"
    THEN checkVariableDeclaration(node, document, tc)
    ELSE IF node.type = "AssignmentExpression"
    THEN checkAssignmentExpression(node, document, tc)
    ELSE IF node.type = "BinaryExpression"
    THEN CheckEach(<<node.left, node.right>>, document, tc)
    ELSE IF node.type = "IfStatement"
    THEN CheckEach(<<node.test, node.consequent, node.alternate>>, document, tc)
    ELSE IF node.type = "WhileStatement"
    THEN CheckEach(<<node.test, node.body>>, document, tc)
    ELSE IF node.type = "ForStatement"
    THEN CheckEach(<<node.init, node.test, node.update, node.body>>, document, tc)
    ELSE IF node.type = "ExpressionStatement"
    THEN checkNode(node.expression, document, tc)
    ELSE IF node.type = "CallExpression"
    THEN CheckEach(<<node.callee>> \o node.arguments, document, tc)
    ELSE IF node.type = "ReturnStatement"
    THEN checkNode(node.argument, document, tc)
    ELSE checkChildren(node, document, tc)

\* TypeChecker.check(ast, document, errors) as one call
check(body, document, errs) == CheckEach(body, document, NewTypeChecker(errs))

(***************************************************************************)
(* NeutronParser.parse and analyzeTypeSafety as functions of the text.     *)
(***************************************************************************)
IsBlank(inp) == \A i \in 1..Len(inp) : inp[i] \in Whitespace

\* the statement loop of parse(); as in BlockLoop, an iteration that
\* leaves the parser unchanged repeats forever
RECURSIVE StatementLoop(_, _)
StatementLoop(p, body) ==
    IF p.position < Len(p.tokens)
    THEN Let(parseStatement(p), LAMBDA stmt :
         IF stmt.st # "ok" THEN stmt
         ELSE IF stmt.p = p THEN Hang(p)
         ELSE StatementLoop(stmt.p, IF stmt.node # NoNode
                                    THEN Append(body, stmt.node) ELSE body))
    ELSE Ok(p, body)

\* the Program returned by parser.parse(inp) on a parser with the error
\* list errs: [st, body, hasErrors, errors]
parse(inp, errs) ==
    IF inp = <<>> \/ IsBlank(inp)
    THEN [st |-> "ok", body |-> <<>>, hasErrors |-> FALSE, errors |-> <<>>]
    ELSE Let(tokenize(inp), LAMBDA scan :
         IF scan.st = "throw"
         THEN [st |-> "throw", body |-> <<>>, hasErrors |-> FALSE, errors |-> <<>>]
         ELSE Let(StatementLoop([tokens |-> scan.tokens, input |-> inp,
                                 position |-> 0, errors |-> errs], <<>>), LAMBDA loop :
              IF loop.st = "hang"
              THEN [st |-> "hang", body |-> <<>>, hasErrors |-> FALSE,
                    errors |-> <<>>]
              ELSE [st |-> "ok", body |-> loop.node, hasErrors |-> TRUE,
                    errors |-> loop.p.errors]))

RECURSIVE SyntaxDiagnostics(_, _)
SyntaxDiagnostics(document, errs) ==
    IF errs = <<>> THEN <<>>
    ELSE <<Diagnostic(document, Head(errs).start, Head(errs).end, Head(errs).message)>>
         \o SyntaxDiagnostics(document, Tail(errs))

\* [st, errors]: the list analyzeTypeSafety returns, or st = "hang"
analyzeTypeSafety(text) ==
    Let(parse(text, NewParser.errors), LAMBDA result :
    IF result.st = "throw" THEN [st |-> "ok", errors |-> <<>>]
    ELSE IF result.st = "hang" THEN [st |-> "hang", errors |-> <<>>]
    ELSE [st |-> "ok",
          errors |-> check(result.body, text,
                           IF result.hasErrors
                           THEN SyntaxDiagnostics(text, result.errors)
                           ELSE <<>>).errors])

(***************************************************************************)
(* Documents.  A document is a sequence of pieces, each a fragment of      *)
(* source text followed by a tail (`;`, a space or a newline); the text is *)
(* their concatenation.                                                    *)
(***************************************************************************)
RECURSIVE Words(_)
Words(ws) ==
    IF ws = <<>> THEN <<>>
    ELSE IF Len(ws) = 1 THEN ws[1]
    ELSE ws[1] \o <<" ">> \o Words(Tail(ws))

X == <<"x">>
Fn == <<"f">>
One == <<"1">>
Two == <<"2">>
Five == <<"5">>
OneHalf == <<"1", ".", "5">>
StrA == <<"\"", "a", "\"">>
Eq == <<"=">>
LParen == <<"(">>
RParen == <<")">>
LBrace == <<"{">>
RBrace == <<"}">>
Semi == <<";">>
Space == <<" ">>
Newline == <<"\n">>

VarIntXStr == Words(<<keywords.var, keywords.int, X, Eq, StrA>>)      \* var int x = "a"
VarX == Words(<<keywords.var, X>>)                             \* var x
AssignX5 == Words(<<X, Eq, Five>>)                      \* x = 5
CallF1 == Words(<<Fn, LParen, One, RParen>>)            \* f ( 1 )
IfNoParen ==                                            \* if ( x { f ( 1 ) ; }
    Words(<<keywords.if, LParen, X, LBrace, Fn, LParen, One, RParen, Semi, RBrace>>)
IfBlock ==                                              \* if ( x ) { x = 5 ; }
    Words(<<keywords.if, LParen, X, RParen, LBrace, X, Eq, Five, Semi, RBrace>>)
IfOpenOpen ==                                           \* if ( x ) { {
    Words(<<keywords.if, LParen, X, RParen, LBrace, LBrace>>)
OnePlusTwo == Words(<<One, <<"+">>, Two>>)              \* 1 + 2
OpenString == <<"\"", "a">>                             \* "a

SimpleFrags == {VarIntXStr, VarX, AssignX5, CallF1}
ValidFrags == SimpleFrags \cup {IfBlock}
ParseFrags == ValidFrags \cup {IfNoParen, IfOpenOpen, RBrace, OnePlusTwo, OpenString}
ParseTails == {Semi, Space, Newline}

VarIntX5 == Words(<<keywords.var, keywords.int, X, Eq, Five>>)        \* var int x = 5
AssignXStr == Words(<<X, Eq, StrA>>)                    \* x = "a"
VarFloatXSum ==                                         \* var float x = 1 + 1
    Words(<<keywords.var, keywords.float, X, Eq, One, <<"+">>, One>>)
AssignXDiv == Words(<<X, Eq, One, <<"/">>, One>>)       \* x = 1 / 1
AssignXTimes == Words(<<X, Eq, X, <<"*">>, One>>)       \* x = x * 1
VarBoolXCmp ==                                          \* var bool x = 1 == 1 or x
    Words(<<keywords.var, keywords.bool, X, Eq, One, <<"=", "=">>, One, keywords.or, X>>)
VarXHalf == Words(<<keywords.var, X, Eq, OneHalf>>)            \* var x = 1.5

TypeFrags == {VarIntX5, VarIntXStr, AssignXStr, VarFloatXSum, AssignXDiv,
              AssignXTimes, VarBoolXCmp, VarXHalf}
TypeTails == {Semi, Newline}

\* declarations and assignments whose right-hand side infers as any, alone
\* or as an operand, after `var int x = 5`
AnyFrags ==
    {VarIntX5,
     Words(<<X, Eq, <<"y">>>>),                                \* x = y
     Words(<<X, Eq, keywords.nil>>),                           \* x = nil
     Words(<<X, Eq, Fn, LParen, One, RParen>>),                \* x = f ( 1 )
     Words(<<X, Eq, <<"y">>, <<".">>, <<"z">>>>),              \* x = y . z
     Words(<<X, Eq, <<"y">>, <<"*">>, One>>),                  \* x = y * 1
     Words(<<keywords.var, keywords.string, X, Eq, keywords.nil>>),
                                                               \* var string x = nil
     Words(<<keywords.var, keywords.int, X, Eq, Fn, LParen, One, RParen,
             <<"+">>, One>>)}                                  \* var int x = f ( 1 ) + 1

\* for ( <clauses> ) { }
ForWith(clauses) ==
    Words(<<keywords.for, LParen>> \o clauses \o <<RParen, LBrace, RBrace>>)

VarI0 == <<keywords.var, <<"i">>, Eq, <<"0">>>>          \* var i = 0
ILessN == <<<<"i">>, <<"<">>, <<"n">>>>                  \* i < n
ForVarInit == ForWith(VarI0 \o <<Semi>> \o ILessN \o <<Semi, <<"i">>>>)
ForExprInit == ForWith(<<X, Semi>> \o ILessN \o <<Semi, <<"i">>>>)
ForNoInit == ForWith(<<Semi>> \o ILessN \o <<Semi, <<"i">>>>)
\* no `;` after the init clause, no `;` after the test clause
ForVarInitNoSemi == ForWith(VarI0 \o ILessN \o <<Semi, <<"i">>>>)
ForExprInitNoSemi == ForWith(<<X>> \o ILessN \o <<Semi, <<"i">>>>)
ForTestNoSemi == ForWith(<<X, Semi>> \o ILessN \o <<<<"i">>>>)
ForVarInitTestNoSemi == ForWith(VarI0 \o <<Semi>> \o ILessN \o <<<<"i">>>>)

ForFrags == {ForVarInit, ForExprInit, ForNoInit}
ForNoSemiFrags ==
    {ForVarInitNoSemi, ForExprInitNoSemi, ForTestNoSemi, ForVarInitTestNoSemi}

\* statements that lack a closing token: the `)` of a header or of a call,
\* the `]` of an array, the `}` of an object literal; and statements whose
\* block lacks its `}`
UnclosedFrags ==
    [closer |->
        {Words(<<keywords.if, LParen, X>>),
         Words(<<keywords.while, LParen, X, LBrace, RBrace>>),
         Words(<<keywords.for, LParen, X, Semi, X, Semi, X, LBrace, RBrace>>),
         Words(<<Fn, LParen, One>>),
         Words(<<X, Eq, Fn, LParen, One>>),
         Words(<<X, Eq, <<"[">>, One>>),
         Words(<<X, Eq, LBrace, StrA, <<":">>, One>>)},
     block |->
        {Words(<<keywords.if, LParen, X, RParen, LBrace, X, Eq, Five, Semi>>),
         Words(<<keywords.while, LParen, X, RParen, LBrace, X, Eq, Five, Semi>>)}]

StructFrags ==
    ForFrags \cup ForNoSemiFrags \cup UnclosedFrags.closer \cup UnclosedFrags.block
        \cup {AssignX5}
StructTails == {Semi, Newline}

\* the statement s in the body of an if, of an else, of a while, of a for,
\* of a function, of a class, as the brace-less body of an if, and in an if
\* in a while
Nested(s) ==
    {Words(<<keywords.if, LParen, <<"y">>, RParen, LBrace, s, RBrace>>),
     Words(<<keywords.if, LParen, <<"y">>, RParen, LBrace, RBrace,
             keywords.else, LBrace, s, RBrace>>),
     Words(<<keywords.while, LParen, <<"y">>, RParen, LBrace, s, RBrace>>),
     Words(<<keywords.for, LParen, Semi, <<"y">>, Semi, RParen, LBrace, s, RBrace>>),
     Words(<<keywords.fun, Fn, LParen, RParen, LBrace, s, RBrace>>),
     Words(<<keywords.class, <<"C">>, LBrace, s, RBrace>>),
     Words(<<keywords.if, LParen, <<"y">>, RParen, s>>),
     Words(<<keywords.while, LParen, <<"y">>, RParen, LBrace,
             keywords.if, LParen, <<"y">>, RParen, LBrace, s, RBrace, RBrace>>)}

\* var int x = 5 ;   var int x = "a" ;   x = "a" ;
InnerFrags == {Words(<<VarIntX5, Semi>>), Words(<<VarIntXStr, Semi>>),
               Words(<<AssignXStr, Semi>>)}

\* these statements at the top level, the first and the last also in every
\* kind of block
NestFrags ==
    InnerFrags \cup Nested(Words(<<VarIntX5, Semi>>))
               \cup Nested(Words(<<AssignXStr, Semi>>))

\* the binary operators, two of each level where the grammar has two
ExprOperators ==
    {<<"*">>, <<"/">>, <<"+">>, <<"-">>, <<"<">>, <<">", "=">>,
     <<"=", "=">>, <<"!", "=">>, keywords.and, keywords.or}

Operands == <<<<"a">>, <<"b">>, <<"c">>, <<"d">>>>

\* the words of `a op1 b op2 c ...`, operand i preceded by `not` if nots[i]
RECURSIVE Expression(_, _)
Expression(ops, nots) ==
    IF Len(nots) = 1
    THEN (IF nots[1] THEN <<keywords.not>> ELSE <<>>) \o <<Operands[1]>>
    ELSE Expression(SubSeq(ops, 1, Len(ops) - 1), SubSeq(nots, 1, Len(nots) - 1))
         \o <<ops[Len(ops)]>>
         \o (IF nots[Len(nots)] THEN <<keywords.not>> ELSE <<>>)
         \o <<Operands[Len(nots)]>>

Expressions(n) ==
    UNION {{Expression(ops, nots) :
                ops \in [1..k -> ExprOperators], nots \in [1..(k + 1) -> BOOLEAN]} :
              k \in 0..n}

\* x = <expression> ;
ExprFrags == {Words(<<X, Eq>> \o e \o <<Semi>>) : e \in Expressions(MaxOperators)}

\* for ( var int x = "a" ; ; y ; ) { x = "a" ; }: the declaration of the
\* init clause takes the first `;`
ForDeclInit ==
    Words(<<keywords.for, LParen, VarIntXStr, Semi, Semi, <<"y">>, Semi, RParen,
            LBrace, AssignXStr, Semi, RBrace>>)
\* if ( y ) var 5 ;
IfVarFive == Words(<<keywords.if, LParen, <<"y">>, RParen, keywords.var, Five, Semi>>)

\* a declaration of x, mismatching assignments and declarations of x at
\* the top level and in every kind of block, and a block whose only
\* statement fails
DeepFrags ==
    {Words(<<VarIntX5, Semi>>), Words(<<AssignXStr, Semi>>), ForDeclInit, IfVarFive}
    \cup Nested(Words(<<AssignXStr, Semi>>))
    \cup Nested(Words(<<VarIntXStr, Semi>>))

\* statements whose first token starts no statement, and one that is valid:
\* 5 + 5   "a"   ( x )   not x   this . x   break   elif ( x )   x = 5
StrayFrags ==
    {Words(<<Five, <<"+">>, Five>>), StrA, Words(<<LParen, X, RParen>>),
     Words(<<keywords.not, X>>), Words(<<keywords.this, <<".">>, X>>),
     keywords.break, Words(<<keywords.elif, LParen, X, RParen>>), AssignX5}

Pieces(frags, tails) == [frag : frags, tail : tails]

Docs(frags, tails, n) ==
    UNION {[1..k -> Pieces(frags, tails)] : k \in 0..n}

\* the documents of up to n pieces that all have the same tail
UniformDocs(frags, tails, n) ==
    UNION {{[i \in 1..k |-> [frag |-> f[i], tail |-> t]] : f \in [1..k -> frags]} :
              <<k, t>> \in (0..n) \X tails}

RECURSIVE Render(_)
Render(d) ==
    IF d = <<>> THEN <<>>
    ELSE d[1].frag \o d[1].tail \o Render(Tail(d))

(***************************************************************************)
(* The validation of one document: validateTextDocument calls              *)
(* analyzeTypeSafety, which parses the text statement by statement, type   *)
(* checks the Program statement by statement and returns the diagnostics   *)
(* that are then published.                                                *)
(***************************************************************************)
(***************************************************************************)
(* Settings.  A settings object is a record of the properties the server   *)
(* reads; `defined` is FALSE for undefined, and a property that is not set *)
(* is Undefined.                                                           *)
(***************************************************************************)
NoObject == [defined |-> FALSE, enableTypeChecking |-> Undefined]
Object(enableTypeChecking, neutron, maxNumberOfProblems) ==
    [defined |-> TRUE, enableTypeChecking |-> enableTypeChecking,
     neutron |-> neutron, maxNumberOfProblems |-> maxNumberOfProblems]
NoSettings ==
    [defined |-> FALSE, enableTypeChecking |-> Undefined, neutron |-> NoObject,
     maxNumberOfProblems |-> Undefined]

defaultSettings == Object(Undefined, NoObject, "1000")

\* the values of the client's `neutron` section: not set, enableTypeChecking
\* true, enableTypeChecking false, and a section that itself has a property
\* `neutron` with enableTypeChecking false
Sections ==
    {NoSettings,
     Object("true", NoObject, Undefined),
     Object("false", NoObject, Undefined),
     Object(Undefined, [defined |-> TRUE, enableTypeChecking |-> "false"], Undefined)}

\* settings && settings.neutron && settings.neutron.enableTypeChecking === false
TypeCheckingDisabled(settings) ==
    /\ settings.defined
    /\ settings.neutron.defined
    /\ settings.neutron.enableTypeChecking = "false"

\* the server after onInitialize, no document open
ServerStarted(capability) ==
    /\ hasConfigurationCapability = capability
    /\ globalSettings = defaultSettings
    /\ documentSettings = 0
    /\ promises = <<>>
    /\ awaiting = <<>>
    /\ requests = <<>>
    /\ inbox = <<>>
    /\ clientSettings = NoSettings
    /\ lastRun = [branch |-> "none", settings |-> NoSettings]
    /\ events = 0
    /\ previous = [runs |-> 0, body |-> <<>>, errors |-> <<>>]

parser == [tokens |-> tokens, input |-> input, position |-> position,
           errors |-> errors]

InitWith(documents) ==
    /\ doc \in documents
    /\ input = Render(doc)
    /\ scanCurrent = 0
    /\ pc = "start"
    /\ tokens = NewParser.tokens
    /\ position = NewParser.position
    /\ errors = NewParser.errors
    /\ statements = <<>>
    /\ hasErrors = FALSE
    /\ iters = 0
    /\ symbolTable = <<>>
    /\ checkIdx = 0
    /\ diagnostics = <<>>
    /\ published = <<>>
    /\ ServerStarted(FALSE)

Init == InitWith(Docs(ParseFrags, ParseTails, MaxStmts))

\* parse(): the empty Program of a blank text, or tokenize; the Error of an
\* unterminated string is caught by analyzeTypeSafety, which returns []
ParseStart ==
    /\ pc = "start"
    /\ IF input = <<>> \/ IsBlank(input)
       THEN /\ pc' = "parsed"
            /\ UNCHANGED tokens
       ELSE \E scan \in {tokenize(input)} :
            /\ tokens' = scan.tokens
            /\ pc' = IF scan.st = "throw" THEN "analyzed" ELSE "parsing"
    /\ position' = 0
    /\ UNCHANGED <<doc, input, scanCurrent, errors, statements, hasErrors, iters, symbolTable,
                   checkIdx, diagnostics, published>>
    /\ UNCHANGED <<serverVars, previous>>

\* one iteration of `while (this.position < this.tokens.length)`; a
\* parseStatement that never returns leaves the validation in "diverged"
ParseLoopIter ==
    /\ pc = "parsing"
    /\ position < Len(tokens)
    /\ iters < Len(tokens) + MaxSpin
    /\ \E stmt \in {parseStatement(parser)} :
       /\ iters' = iters + 1
       /\ position' = stmt.p.position
       /\ errors' = stmt.p.errors
       /\ pc' = IF stmt.st = "hang" THEN "diverged" ELSE "parsing"
       /\ statements' = IF stmt.st = "ok" /\ stmt.node # NoNode
                        THEN Append(statements, stmt.node) ELSE statements
    /\ UNCHANGED <<doc, input, scanCurrent, tokens, hasErrors, symbolTable, checkIdx,
                   diagnostics, published>>
    /\ UNCHANGED <<serverVars, previous>>

\* parse() returns { type: 'Program', body: statements, errors: this.errors }
ParseReturn ==
    /\ pc = "parsing"
    /\ position >= Len(tokens)
    /\ pc' = "parsed"
    /\ hasErrors' = TRUE
    /\ UNCHANGED <<doc, input, scanCurrent, tokens, position, errors, statements, iters,
                   symbolTable, checkIdx, diagnostics, published>>
    /\ UNCHANGED <<serverVars, previous>>

\* analyzeTypeSafety copies result.errors into its list and starts
\* typeChecker.check, which resets the symbol table
CheckStart ==
    /\ pc = "parsed"
    /\ diagnostics' = IF hasErrors THEN SyntaxDiagnostics(input, errors) ELSE <<>>
    /\ symbolTable' = NewTypeChecker(<<>>).symbolTable
    /\ checkIdx' = 0
    /\ pc' = "checking"
    /\ UNCHANGED <<doc, input, scanCurrent, tokens, position, errors, statements, hasErrors,
                   iters, published>>
    /\ UNCHANGED <<serverVars, previous>>

\* one iteration of `for (const node of ast.body) this.checkNode(node, document)`
CheckLoopIter ==
    /\ pc = "checking"
    /\ checkIdx < Len(statements)
    /\ \E tc \in {checkNode(statements[checkIdx + 1], input,
                           [symbolTable |-> symbolTable, errors |-> diagnostics])} :
          /\ symbolTable' = tc.symbolTable
          /\ diagnostics' = tc.errors
    /\ checkIdx' = checkIdx + 1
    /\ UNCHANGED <<doc, input, scanCurrent, pc, tokens, position, errors, statements, hasErrors,
                   iters, published>>
    /\ UNCHANGED <<serverVars, previous>>

CheckReturn ==
    /\ pc = "checking"
    /\ checkIdx >= Len(statements)
    /\ pc' = "analyzed"
    /\ UNCHANGED <<doc, input, scanCurrent, tokens, position, errors, statements, hasErrors,
                   iters, symbolTable, checkIdx, diagnostics, published>>
    /\ UNCHANGED <<serverVars, previous>>

RECURSIVE WithSource(_)
WithSource(ds) ==
    IF ds = <<>> THEN <<>>
    ELSE <<[severity |-> 1, range |-> Head(ds).range, message |-> Head(ds).message,
            source |-> "Neutron Type Checker"]>> \o WithSource(Tail(ds))

\* validateTextDocument sends the diagnostics analyzeTypeSafety returned
Publish ==
    /\ pc = "analyzed"
    /\ published' = WithSource(diagnostics)
    /\ pc' = "done"
    /\ UNCHANGED <<doc, input, scanCurrent, tokens, position, errors, statements, hasErrors,
                   iters, symbolTable, checkIdx, diagnostics>>
    /\ UNCHANGED <<serverVars, previous>>

Next ==
    \/ ParseStart
    \/ ParseLoopIter
    \/ ParseReturn
    \/ CheckStart
    \/ CheckLoopIter
    \/ CheckReturn
    \/ Publish

Spec == Init /\ [][Next]_vars

\* variant: the second analyzeTypeSafety parses with the parser of the first
Revalidate_SameParser ==
    /\ pc = "done"
    /\ previous.runs = 0
    /\ previous' = [runs |-> 1, body |-> statements, errors |-> diagnostics]
    /\ pc' = "start"
    /\ statements' = <<>>
    /\ hasErrors' = FALSE
    /\ iters' = 0
    /\ diagnostics' = <<>>
    /\ UNCHANGED <<doc, input, scanCurrent, tokens, position, errors, symbolTable,
                   checkIdx, published, serverVars>>

\* analyzeTypeSafety is called again with the same text: `const errors = []`
\* and `new NeutronParser()`
Revalidate ==
    /\ pc = "done"
    /\ previous.runs = 0
    /\ previous' = [runs |-> 1, body |-> statements, errors |-> diagnostics]
    /\ pc' = "start"
    /\ tokens' = NewParser.tokens
    /\ position' = NewParser.position
    /\ errors' = NewParser.errors
    /\ statements' = <<>>
    /\ hasErrors' = FALSE
    /\ iters' = 0
    /\ diagnostics' = <<>>
    /\ UNCHANGED <<doc, input, scanCurrent, symbolTable, checkIdx, published,
                   serverVars>>

NextTwice ==
    \/ Next
    \/ Revalidate

SpecTwice == Init /\ [][NextTwice]_vars

\* the texts of a second parse call: the valid `x = 5;` and the empty text
AgainDocs == Docs({AssignX5}, {Semi}, 1)

\* parse has returned and the caller calls parse(text) again on the same
\* parser object, with the same or another text: the object keeps its
\* tokens, position and errors; the Program returned first is kept as
\* previous, its `errors` field (if it has one: shared) being the array
\* this.errors itself
ParseAgain ==
    /\ pc = "parsed"
    /\ previous.runs = 0
    /\ previous' = [runs |-> 1, body |-> statements, errors |-> errors,
                    shared |-> hasErrors]
    /\ doc' \in AgainDocs \cup {doc}
    /\ input' = Render(doc')
    /\ pc' = "start"
    /\ statements' = <<>>
    /\ hasErrors' = FALSE
    /\ iters' = 0
    /\ UNCHANGED <<scanCurrent, tokens, position, errors, symbolTable, checkIdx,
                   diagnostics, published, serverVars>>

NextReuse ==
    \/ ParseStart
    \/ ParseLoopIter
    \/ ParseReturn
    \/ ParseAgain

InitReuse == InitWith(Docs(ParseFrags, ParseTails, MaxReuseStmts))

SpecReuse == InitReuse /\ [][NextReuse]_vars

InitTypes == InitWith(UniformDocs(TypeFrags, TypeTails, MaxTypeStmts))

SpecTypes == InitTypes /\ [][Next]_vars

InitAny == InitWith(UniformDocs(AnyFrags, TypeTails, MaxAnyStmts))

SpecAny == InitAny /\ [][Next]_vars

(***************************************************************************)
(* Properties of the parser.                                               *)
(***************************************************************************)
Returned == {"parsed", "checking", "analyzed", "done"}

\* offset at which piece i of the document starts
PieceStart(i) == Len(Render(SubSeq(doc, 1, i - 1)))
PieceEnd(i) == PieceStart(i) + Len(doc[i].frag)

AllValid == \A i \in 1..Len(doc) : doc[i].frag \in ValidFrags

MissingSemicolonTexts ==
    {MissingSemicolonDeclaration, MissingSemicolonStatement, MissingSemicolonAssignment}

MissingSemicolonErrors ==
    {k \in 1..Len(errors) : errors[k].message.text \in MissingSemicolonTexts}

\* the missing-semicolon errors recorded for piece i
MissingIn(i) ==
    {k \in MissingSemicolonErrors :
        errors[k].start > PieceStart(i) /\ errors[k].start <= PieceEnd(i)}

\* C1: every iteration of a statement loop of parse advances the token
\* cursor (or ends the loop), so parse terminates: an iteration of the
\* top-level loop leaves the cursor further on, and no parseStatement is
\* caught in a block loop that never exits.
C1_IterationAdvances ==
    [][(pc = "parsing" /\ iters' = iters + 1)
          => (position' > position /\ pc' = "parsing")]_vars

IfNoParenLed ==
    /\ doc # <<>>
    /\ doc[1].frag = IfNoParen
    /\ \A i \in 2..Len(doc) : doc[i].frag \in ValidFrags

\* C2: for a document that starts with `if (x { f(1); }` and goes on with
\* valid statements, parse returns (a parse that returns runs at most one
\* iteration per token), records exactly one SyntaxError for the `if` and
\* returns a node for every statement that follows it.
C2_IfMissingParenRecovers ==
    IfNoParenLed =>
        /\ pc # "diverged"
        /\ iters <= Len(tokens)
        /\ pc \in Returned =>
              /\ Cardinality({k \in 1..Len(errors) : errors[k].start < PieceEnd(1)}) = 1
              /\ Len(statements) >= Len(doc) - 1

\* C3: in a parsed document of valid statements, a declaration, expression
\* statement or assignment that is followed by `;` has no missing-semicolon
\* error and one that is not has exactly one; there are no others.
C3_MissingSemicolonCount ==
    (pc \in Returned /\ hasErrors /\ AllValid) =>
        /\ \A i \in 1..Len(doc) :
              doc[i].frag \in SimpleFrags =>
                 Cardinality(MissingIn(i)) = IF doc[i].tail = Semi THEN 0 ELSE 1
        /\ Cardinality(MissingSemicolonErrors)
              = Cardinality({i \in 1..Len(doc) :
                                doc[i].frag \in SimpleFrags /\ doc[i].tail # Semi})

C3_Witness ==
    /\ pc = "done"
    /\ Len(doc) = 2
    /\ doc[1].frag = CallF1 /\ doc[1].tail = Space
    /\ doc[2].frag = AssignX5 /\ doc[2].tail = Semi
    /\ Len(errors) = 1
    /\ Len(statements) = 2

\* the first line break at or after offset pos, or the end of the text
LineEndFrom(pos) ==
    IF \E j \in pos..(Len(input) - 1) : At(input, j) \in {"\n", "\r"}
    THEN CHOOSE j \in pos..(Len(input) - 1) :
            /\ At(input, j) \in {"\n", "\r"}
            /\ \A h \in pos..(j - 1) : At(input, h) \notin {"\n", "\r"}
    ELSE Len(input)

\* C4: the missing-semicolon error of a declaration, expression statement
\* or assignment starts at the end of the statement (the end of its last
\* token) and ends at the first line break at or after it, or at the end
\* of the text.
C4_MissingSemicolonRange ==
    (pc \in Returned /\ hasErrors /\ AllValid) =>
        \A i \in 1..Len(doc) : \A k \in MissingIn(i) :
            doc[i].frag \in SimpleFrags =>
               /\ errors[k].start = PieceEnd(i)
               /\ errors[k].end = LineEndFrom(PieceEnd(i))

\* the document with `;` in place of every space that follows a piece
SemiDoc ==
    [i \in 1..Len(doc) |->
        IF doc[i].tail = Space THEN [doc[i] EXCEPT !.tail = Semi] ELSE doc[i]]

SansEnd(node) == [f \in (DOMAIN node) \ {"end"} |-> node[f]]

IsTypeMismatch(d) == d.message.text = "Type mismatch"
TypeDiagnostics(ds) == SelectSeq(ds, IsTypeMismatch)

\* C5: a missing semicolon is not fatal.  For a document of valid
\* statements, parse returns one node per statement, each equal but for
\* its `end` offset to the node of the same document with the missing `;`
\* in place, and the Type-mismatch diagnostics of the two are the same.
C5_MissingSemicolonNonFatal ==
    (pc = "done" /\ hasErrors /\ AllValid
        /\ \E i \in 1..Len(doc) : doc[i].frag \in SimpleFrags /\ doc[i].tail = Space)
    => LET text == Render(SemiDoc)
           terminated == parse(text, NewParser.errors)
       IN /\ terminated.st = "ok"
          /\ Len(statements) = Len(doc)
          /\ Len(terminated.body) = Len(statements)
          /\ \A k \in 1..Len(statements) :
                SansEnd(statements[k]) = SansEnd(terminated.body[k])
          /\ TypeDiagnostics(diagnostics)
                = TypeDiagnostics(analyzeTypeSafety(text).errors)

C5_Witness ==
    /\ pc = "done"
    /\ doc = <<[frag |-> VarIntXStr, tail |-> Space]>>
    /\ Len(statements) = 1
    /\ statements[1].init.vtype = "string"
    /\ Len(published) = 2
    /\ published[1].message.text = MissingSemicolonDeclaration
    /\ IsTypeMismatch(published[2])

(***************************************************************************)
(* Properties of the type checker.                                         *)
(***************************************************************************)
\* a step of check()'s loop, on the statement `Checked`
CheckStep == pc = "checking" /\ checkIdx < Len(statements) /\ checkIdx' = checkIdx + 1
Checked == statements[checkIdx + 1]

\* line and character of an offset: the line breaks before it, and its
\* distance from the last of them
LineBreaksBefore(index) ==
    {i \in 0..(index - 1) : i < Len(input) /\ At(input, i) = "\n"}
PositionOf(index) ==
    LET at == IF index < Len(input) THEN index ELSE Len(input)
        breaks == LineBreaksBefore(at)
    IN [line |-> Cardinality(breaks),
        character |-> IF breaks = {} THEN at
                      ELSE at - 1 - (CHOOSE b \in breaks : \A c \in breaks : c <= b)]

TypeTags ==
    {keywords.int, keywords.float, keywords.string, keywords.bool,
     keywords.array, keywords.object, keywords.any}

CompatibleRule(expected, actual) ==
    \/ expected = actual
    \/ expected = keywords.any
    \/ actual = keywords.any
    \/ (expected = keywords.float /\ actual = keywords.int)

MismatchAt(expr, expected, actual, where, name) ==
    [severity |-> 1,
     range |-> [start |-> PositionOf(expr.start), end |-> PositionOf(expr.end)],
     message |-> [text |-> "Type mismatch", expected |-> expected,
                  actual |-> actual, where |-> where, name |-> name]]

\* table is `before` with the entry of name set to type
IsSetOf(table, before, name, type) ==
    /\ DOMAIN table = DOMAIN before \cup {name}
    /\ table[name] = type
    /\ \A n \in DOMAIN before : n # name => table[n] = before[n]

\* C6: checking `var T name = expr;`: when the inferred type A of expr is
\* incompatible with T, exactly one diagnostic "Type mismatch: expected T
\* but got A" at the line/character range of expr is added and the symbol
\* table is not written; otherwise no diagnostic is added and the entry of
\* name is set to T.
C6_TypedDeclaration ==
    [][(CheckStep /\ Checked.type = "VariableDeclaration"
           /\ Checked.declaredType # NoType /\ Checked.init # NoNode)
       => LET T == Checked.declaredType
              A == inferType(Checked.init, symbolTable)
          IN IF CompatibleRule(T, A)
             THEN /\ diagnostics' = diagnostics
                  /\ IsSetOf(symbolTable', symbolTable, Checked.name, T)
             ELSE /\ diagnostics' = Append(diagnostics,
                         MismatchAt(Checked.init, T, A, "for variable", Checked.name))
                  /\ symbolTable' = symbolTable]_vars

C6_Witness ==
    /\ pc = "checking"
    /\ checkIdx = 2
    /\ statements[1].type = "VariableDeclaration"
    /\ statements[1].declaredType = keywords.float
    /\ statements[2].type = "VariableDeclaration"
    /\ statements[2].declaredType = keywords.int
    /\ symbolTable = (X :> keywords.float)
    /\ Len(diagnostics) = 3
    /\ diagnostics[3].message.actual = keywords.string
    /\ diagnostics[3].range.start = [line |-> 1, character |-> 12]
    /\ diagnostics[3].range.end = [line |-> 1, character |-> 15]

\* the symbol table check() has built before statement j
TableBefore(j) == check(SubSeq(statements, 1, j - 1), input, <<>>).symbolTable

DeclarationOf(j, name) ==
    statements[j].type = "VariableDeclaration" /\ statements[j].name = name

\* statement j is a typed declaration whose initializer is incompatible
DeclarationFailed(j) ==
    /\ statements[j].type = "VariableDeclaration"
    /\ statements[j].declaredType # NoType
    /\ statements[j].init # NoNode
    /\ ~CompatibleRule(statements[j].declaredType,
                       inferType(statements[j].init, TableBefore(j)))

\* statement j is a failed declaration of name, and every declaration of
\* name between it and statement k failed too
FailedSince(j, k, name) ==
    /\ DeclarationOf(j, name)
    /\ DeclarationFailed(j)
    /\ \A i \in (j + 1)..(k - 1) : DeclarationOf(i, name) => DeclarationFailed(i)

\* C7 as claimed: after a failed typed declaration of name, an assignment
\* to name adds no diagnostic until a declaration of name succeeds,
\* whatever preceded the failed declaration.
C7_UntrackedAfterFailure ==
    [][(CheckStep /\ Checked.type = "AssignmentExpression"
           /\ \E j \in 1..checkIdx : FailedSince(j, checkIdx + 1, Checked.left.name))
       => diagnostics' = diagnostics]_vars

\* C7 as amended: a failed typed declaration of name leaves the entry of
\* name as it was before it, so a later assignment to name adds no
\* diagnostic when name was untracked or any before the failed declaration
\* (and is checked against the earlier type when it was tracked).
C7_FailureKeepsEntry ==
    [][(CheckStep /\ Checked.type = "AssignmentExpression")
       => \A j \in 1..checkIdx :
             FailedSince(j, checkIdx + 1, Checked.left.name)
             => LET before == SymbolGet(TableBefore(j), Checked.left.name) IN
                /\ SymbolGet(symbolTable, Checked.left.name) = before
                /\ before \in {NoType, keywords.any} => diagnostics' = diagnostics]_vars

C7_Witness ==
    /\ pc = "checking"
    /\ checkIdx = 2
    /\ doc[1].frag = VarIntXStr
    /\ doc[2].frag = AssignXStr
    /\ statements[2].type = "AssignmentExpression"
    /\ symbolTable = <<>>
    /\ Len(TypeDiagnostics(diagnostics)) = 1

\* C8: checking `name = expr;` with name tracked as T other than any adds
\* exactly one Type-mismatch diagnostic at the range of expr when the
\* inferred type of expr is incompatible with T and none otherwise; no
\* assignment changes the symbol table.
C8_Assignment ==
    [][(CheckStep /\ Checked.type = "AssignmentExpression")
       => LET name == Checked.left.name
              T == SymbolGet(symbolTable, name)
              A == inferType(Checked.right, symbolTable)
          IN /\ symbolTable' = symbolTable
             /\ (T # NoType /\ T # keywords.any) =>
                   diagnostics' =
                      IF CompatibleRule(T, A) THEN diagnostics
                      ELSE Append(diagnostics,
                              MismatchAt(Checked.right, T, A, "when assigning to", name))]_vars

C8_Witness ==
    /\ pc = "checking"
    /\ checkIdx = 3
    /\ doc[1].frag = VarIntX5
    /\ doc[2].frag = AssignXStr
    /\ doc[3].frag = AssignXStr
    /\ symbolTable = (X :> keywords.int)
    /\ Len(TypeDiagnostics(diagnostics)) = 2
    /\ diagnostics[Len(diagnostics)].message.expected = keywords.int

\* C9: over the type tags, isCompatibleType(expected, actual) holds exactly
\* when the two are equal, either is any, or expected is float and actual
\* is int; and no diagnostic reports a compatible pair.
C9_CompatibilityTable ==
    /\ \A expected \in TypeTags : \A actual \in TypeTags :
          isCompatibleType(expected, actual) <=> CompatibleRule(expected, actual)
    /\ ~isCompatibleType(keywords.int, keywords.float)
    /\ \A k \in 1..Len(diagnostics) :
          IsTypeMismatch(diagnostics[k]) =>
             ~CompatibleRule(diagnostics[k].message.expected,
                             diagnostics[k].message.actual)

C9_Witness ==
    /\ pc = "done"
    /\ Len(doc) = 2
    /\ doc[1].frag = VarIntX5
    /\ doc[2].frag = AssignXDiv
    /\ Len(TypeDiagnostics(diagnostics)) = 1
    /\ \E k \in 1..Len(diagnostics) :
          /\ IsTypeMismatch(diagnostics[k])
          /\ diagnostics[k].message.expected = keywords.int
          /\ diagnostics[k].message.actual = keywords.float

\* the binary and logical expressions in an expression
RECURSIVE Operations(_)
OperationsIn(nodes) == UNION {Operations(nodes[i]) : i \in 1..Len(nodes)}
Operations(e) ==
    IF e.type \in {"BinaryExpression", "LogicalExpression"}
    THEN {e} \cup Operations(e.left) \cup Operations(e.right)
    ELSE IF e.type = "UnaryExpression" THEN Operations(e.argument)
    ELSE IF e.type = "CallExpression" THEN OperationsIn(e.arguments)
    ELSE IF e.type = "ArrayExpression" THEN OperationsIn(e.elements)
    ELSE {}

ExpressionOf(stmt) ==
    IF stmt.type = "VariableDeclaration" THEN stmt.init
    ELSE IF stmt.type = "AssignmentExpression" THEN stmt.right
    ELSE NoNode

IsOne(e) == e.type = "Literal" /\ e.raw = One

InfersAny(expr, table) == inferType(expr, table) = keywords.any
HasAnyOperand(expr, table) ==
    \/ InfersAny(expr, table)
    \/ /\ expr.type \in {"BinaryExpression", "LogicalExpression"}
       /\ InfersAny(expr.left, table) \/ InfersAny(expr.right, table)

\* C11: a typed declaration, or an assignment to a tracked name, whose
\* initializer / right-hand side infers as any or has an operand that
\* infers as any adds no Type-mismatch diagnostic.
C11_OnlyDefiniteMismatches ==
    [][(/\ CheckStep
        /\ \/ /\ Checked.type = "VariableDeclaration"
              /\ Checked.declaredType # NoType
              /\ Checked.init # NoNode
              /\ HasAnyOperand(Checked.init, symbolTable)
           \/ /\ Checked.type = "AssignmentExpression"
              /\ SymbolGet(symbolTable, Checked.left.name) # NoType
              /\ HasAnyOperand(Checked.right, symbolTable))
       => TypeDiagnostics(diagnostics') = TypeDiagnostics(diagnostics)]_vars

InitStruct == InitWith(UniformDocs(StructFrags, StructTails, MaxStructStmts))

SpecStruct == InitStruct /\ [][Next]_vars

InitNest == InitWith(UniformDocs(NestFrags, {Newline}, MaxNestStmts))

SpecNest == InitNest /\ [][Next]_vars

InitStray == InitWith(Docs(StrayFrags, {Semi, Newline}, MaxStrayStmts))

SpecStray == InitStray /\ [][Next]_vars

InitDeep == InitWith(UniformDocs(DeepFrags, {Newline}, MaxDeepStmts))

SpecDeep == InitDeep /\ [][Next]_vars

InitExpr == InitWith(UniformDocs(ExprFrags, {Newline}, 1))

SpecExpr == InitExpr /\ [][Next]_vars

(***************************************************************************)
(* The scan loop of tokenize on its own, over every text of at most        *)
(* MaxScanLen characters of ScanAlphabet.                                  *)
(***************************************************************************)
ScanAlphabet == {"/", "*", "\"", "\\", "a", "1", "=", " ", "\n"}

Texts == UNION {[1..n -> ScanAlphabet] : n \in 0..MaxScanLen}

InitScan ==
    /\ doc = <<>>
    /\ input \in Texts
    /\ scanCurrent = 0
    /\ pc = "scan"
    /\ tokens = <<>>
    /\ position = NewParser.position
    /\ errors = NewParser.errors
    /\ statements = <<>>
    /\ hasErrors = FALSE
    /\ iters = 0
    /\ symbolTable = <<>>
    /\ checkIdx = 0
    /\ diagnostics = <<>>
    /\ published = <<>>
    /\ ServerStarted(FALSE)

\* one iteration of `while (current < input.length)`
ScanIter ==
    /\ pc = "scan"
    /\ scanCurrent < Len(input)
    /\ \E step \in {ScanStep(input, scanCurrent)} :
       /\ scanCurrent' = step.current
       /\ tokens' = tokens \o step.emit
       /\ pc' = IF step.st = "throw" THEN "threw" ELSE "scan"
    /\ UNCHANGED <<doc, input, position, errors, statements, hasErrors, iters,
                   symbolTable, checkIdx, diagnostics, published>>
    /\ UNCHANGED <<serverVars, previous>>

\* `return tokens`
ScanReturn ==
    /\ pc = "scan"
    /\ scanCurrent >= Len(input)
    /\ pc' = "scanned"
    /\ UNCHANGED <<doc, input, scanCurrent, tokens, position, errors, statements,
                   hasErrors, iters, symbolTable, checkIdx, diagnostics, published>>
    /\ UNCHANGED <<serverVars, previous>>

NextScan ==
    \/ ScanIter
    \/ ScanReturn

\* the loop is sequential code: an enabled step is taken
SpecScan == InitScan /\ [][NextScan]_vars /\ WF_vars(NextScan)

(***************************************************************************)
(* The recovery of parseStatement on its own: skipToNextStatement from     *)
(* every cursor position of every text of at most MaxSkipLen words.        *)
(***************************************************************************)
SkipWords ==
    {Semi, LBrace, RBrace, keywords.var, keywords.return, keywords.else, X, Five}

SkipTexts == {Words(ws) : ws \in UNION {[1..n -> SkipWords] : n \in 0..MaxSkipLen}}

\* a statement has failed with the cursor at `position`
InitSkip ==
    /\ doc = <<>>
    /\ input \in SkipTexts
    /\ scanCurrent = 0
    /\ pc = "failed"
    /\ tokens = tokenize(input).tokens
    /\ position \in 0..Len(tokens)
    /\ errors = NewParser.errors
    /\ statements = <<>>
    /\ hasErrors = FALSE
    /\ iters = 0
    /\ symbolTable = <<>>
    /\ checkIdx = 0
    /\ diagnostics = <<>>
    /\ published = <<>>
    /\ ServerStarted(FALSE)

\* this.skipToNextStatement()
Recover ==
    /\ pc = "failed"
    /\ position' = skipToNextStatement(parser).position
    /\ pc' = "recovered"
    /\ UNCHANGED <<doc, input, scanCurrent, tokens, errors, statements, hasErrors,
                   iters, symbolTable, checkIdx, diagnostics, published>>
    /\ UNCHANGED <<serverVars, previous>>

NextSkip == Recover

SpecSkip == InitSkip /\ [][NextSkip]_vars

(***************************************************************************)
(* The language server with one document: the client edits the document    *)
(* and changes its configuration, the server handles the client's messages *)
(* one at a time, in the order they were sent.                             *)
(***************************************************************************)
\* the texts the client gives the document: one with a type mismatch, one
\* without diagnostics, one on which parse does not return
ServerFrags == {VarIntXStr, AssignX5, RBrace}
ServerDocs == {<<[frag |-> f, tail |-> Semi]>> : f \in ServerFrags}

Message(kind, document, settings, promise) ==
    [kind |-> kind, doc |-> document, settings |-> settings, promise |-> promise]

pipelineVars == <<scanCurrent, tokens, position, errors, statements, hasErrors,
                  iters, symbolTable, checkIdx, diagnostics, previous>>

InitServer ==
    /\ doc = <<>>
    /\ input = <<>>
    /\ scanCurrent = 0
    /\ pc = "idle"
    /\ tokens = NewParser.tokens
    /\ position = NewParser.position
    /\ errors = NewParser.errors
    /\ statements = <<>>
    /\ hasErrors = FALSE
    /\ iters = 0
    /\ symbolTable = <<>>
    /\ checkIdx = 0
    /\ diagnostics = <<>>
    /\ published = <<>>
    /\ \E capability \in BOOLEAN : ServerStarted(capability)

\* the client opens or edits the document
ClientEdit ==
    /\ events < MaxEvents
    /\ \E d \in ServerDocs :
          inbox' = Append(inbox, Message("didChangeContent", d, NoSettings, 0))
    /\ events' = events + 1
    /\ UNCHANGED <<doc, input, pc, published, pipelineVars,
                   hasConfigurationCapability, globalSettings, documentSettings,
                   promises, awaiting, requests, clientSettings, lastRun>>

\* the client's configuration changes
ClientConfigure ==
    /\ events < MaxEvents
    /\ \E s \in Sections \ {clientSettings} :
          /\ clientSettings' = s
          /\ inbox' = Append(inbox, Message("didChangeConfiguration", <<>>, s, 0))
    /\ events' = events + 1
    /\ UNCHANGED <<doc, input, pc, published, pipelineVars,
                   hasConfigurationCapability, globalSettings, documentSettings,
                   promises, awaiting, requests, lastRun>>

\* the client answers the oldest workspace/configuration request with the
\* `neutron` section of its configuration
ClientAnswer ==
    /\ requests # <<>>
    /\ inbox' = Append(inbox, Message("configuration", <<>>, clientSettings,
                                      Head(requests)))
    /\ requests' = Tail(requests)
    /\ UNCHANGED <<doc, input, pc, published, pipelineVars,
                   hasConfigurationCapability, globalSettings, documentSettings,
                   promises, awaiting, clientSettings, lastRun, events>>

\* validateTextDocument after `await getDocumentSettings(...)`: text is what
\* textDocument.getText() returns then
Continue(settings, text) ==
    IF TypeCheckingDisabled(settings)
    THEN /\ published' = <<>>
         /\ lastRun' = [branch |-> "disabled", settings |-> settings]
         /\ pc' = pc
    ELSE \E typeErrors \in {analyzeTypeSafety(text)} :
         /\ published' = IF typeErrors.st = "hang" THEN published
                         ELSE WithSource(typeErrors.errors)
         /\ lastRun' = [branch |-> "analyzed", settings |-> settings]
         /\ pc' = IF typeErrors.st = "hang" THEN "diverged" ELSE pc

\* validateTextDocument called by a handler that leaves the cache entry
\* `cached` and the global settings `global`: getDocumentSettings, and the
\* rest of the validation if the promise is settled already
validateTextDocument(cached, global, text) ==
    IF ~hasConfigurationCapability
    THEN /\ Continue(global, text)
         /\ documentSettings' = cached
         /\ UNCHANGED <<promises, awaiting, requests>>
    ELSE IF cached = 0
    THEN /\ promises' = Append(promises, [settled |-> FALSE, value |-> NoSettings])
         /\ requests' = Append(requests, Len(promises) + 1)
         /\ documentSettings' = Len(promises) + 1
         /\ awaiting' = Append(awaiting, Len(promises) + 1)
         /\ UNCHANGED <<published, lastRun, pc>>
    ELSE IF promises[cached].settled
    THEN /\ Continue(promises[cached].value, text)
         /\ documentSettings' = cached
         /\ UNCHANGED <<promises, awaiting, requests>>
    ELSE /\ awaiting' = Append(awaiting, cached)
         /\ documentSettings' = cached
         /\ UNCHANGED <<promises, requests, published, lastRun, pc>>

\* documents.onDidChangeContent, after the document manager applied the edit
DidChangeContent ==
    /\ pc = "idle"
    /\ inbox # <<>>
    /\ Head(inbox).kind = "didChangeContent"
    /\ inbox' = Tail(inbox)
    /\ doc' = Head(inbox).doc
    /\ input' = Render(Head(inbox).doc)
    /\ validateTextDocument(documentSettings, globalSettings,
                            Render(Head(inbox).doc))
    /\ UNCHANGED <<pipelineVars, hasConfigurationCapability, globalSettings,
                   clientSettings, events>>

\* connection.onDidChangeConfiguration; documents.all() has the document
\* once it was opened (every text of ServerDocs is non-empty)
DidChangeConfiguration ==
    /\ pc = "idle"
    /\ inbox # <<>>
    /\ Head(inbox).kind = "didChangeConfiguration"
    /\ inbox' = Tail(inbox)
    /\ globalSettings' =
          IF hasConfigurationCapability THEN globalSettings
          ELSE IF Head(inbox).settings.defined THEN Head(inbox).settings
          ELSE defaultSettings
    /\ IF doc # <<>>
       THEN validateTextDocument(
                IF hasConfigurationCapability THEN 0 ELSE documentSettings,
                IF hasConfigurationCapability THEN globalSettings
                ELSE IF Head(inbox).settings.defined THEN Head(inbox).settings
                ELSE defaultSettings,
                input)
       ELSE /\ documentSettings' =
                  IF hasConfigurationCapability THEN 0 ELSE documentSettings
            /\ UNCHANGED <<promises, awaiting, requests, published, lastRun, pc>>
    /\ UNCHANGED <<doc, input, pipelineVars, hasConfigurationCapability,
                   clientSettings, events>>

\* the response to a workspace/configuration request settles its promise;
\* the validations that await it go on, one after the other
ConfigurationResponse ==
    /\ pc = "idle"
    /\ inbox # <<>>
    /\ Head(inbox).kind = "configuration"
    /\ inbox' = Tail(inbox)
    /\ promises' = [promises EXCEPT ![Head(inbox).promise] =
                       [settled |-> TRUE, value |-> Head(inbox).settings]]
    /\ awaiting' = SelectSeq(awaiting, LAMBDA q : q # Head(inbox).promise)
    /\ IF \E k \in 1..Len(awaiting) : awaiting[k] = Head(inbox).promise
       THEN Continue(Head(inbox).settings, input)
       ELSE UNCHANGED <<published, lastRun, pc>>
    /\ UNCHANGED <<doc, input, pipelineVars, hasConfigurationCapability,
                   globalSettings, documentSettings, requests, clientSettings,
                   events>>

NextServer ==
    \/ ClientEdit
    \/ ClientConfigure
    \/ ClientAnswer
    \/ DidChangeContent
    \/ DidChangeConfiguration
    \/ ConfigurationResponse

SpecServer == InitServer /\ [][NextServer]_vars

(***************************************************************************)
(* Properties of the tokenizer and of the pipeline around it.              *)
(***************************************************************************)
\* The documents of Spec have no comment, no escape and no single quote:
\* each `"` opens a string or closes the one that is open, so the text has
\* a string literal that never closes exactly when it has an odd number
\* of `"`.
NeverCloses == Cardinality({i \in 1..Len(input) : input[i] = "\""}) % 2 = 1

Scanning == pc = "scan" /\ scanCurrent < Len(input)

\* the number of `\` that end just before offset i, none before offset low
RECURSIVE BackslashRun(_, _, _)
BackslashRun(text, i, low) ==
    IF i > low /\ At(text, i - 1) = "\\"
    THEN 1 + BackslashRun(text, i - 1, low)
    ELSE 0

\* the text has `/*` at offset from and no `*/` after it
OpenBlockComment(text, from) ==
    /\ At(text, from) = "/"
    /\ At(text, from + 1) = "*"
    /\ ~\E i \in (from + 2)..(Len(text) - 2) :
           At(text, i) = "*" /\ At(text, i + 1) = "/"

\* the text has a quote at offset from and no later occurrence of that quote
\* that is not escaped (preceded by an odd number of `\`)
OpenStringAt(text, from) ==
    /\ At(text, from) \in {"\"", "'"}
    /\ ~\E i \in (from + 1)..(Len(text) - 1) :
           /\ At(text, i) = At(text, from)
           /\ BackslashRun(text, i, from + 1) % 2 = 0

AtPiece(i) ==
    /\ pc = "parsing"
    /\ position < Len(tokens)
    /\ tokens[position + 1].start = PieceStart(i)

\* the iteration returned a node, which parse pushed
Pushed == Len(statements') = Len(statements) + 1
PushedNode == statements'[Len(statements')]

\* the init clause the `for` of fragment frag was written with
InitKindOf(frag) ==
    IF frag = ForVarInit THEN "VariableDeclaration"
    ELSE IF frag = ForExprInit THEN "Identifier"
    ELSE "null"

\* C14: the iteration of parse that reads a `for` written with its three
\* clauses, the init a `var` declaration, an expression or empty, pushes one
\* ForStatement node with that init, the test, the update and the body, and
\* records no error.
C14_ForParses ==
    [][\A i \in 1..Len(doc) :
          (AtPiece(i) /\ doc[i].frag \in ForFrags /\ iters' = iters + 1)
          => /\ Pushed
             /\ PushedNode.type = "ForStatement"
             /\ PushedNode.init.type = InitKindOf(doc[i].frag)
             /\ PushedNode.test.type = "BinaryExpression"
             /\ PushedNode.update.type = "Identifier"
             /\ PushedNode.body.type = "BlockStatement"
             /\ errors' = errors]_vars

\* C14 for the `for` whose init is an expression or empty
C14_ForExpressionInitParses ==
    [][\A i \in 1..Len(doc) :
          (AtPiece(i) /\ doc[i].frag \in {ForExprInit, ForNoInit}
             /\ iters' = iters + 1)
          => /\ Pushed
             /\ PushedNode.type = "ForStatement"
             /\ PushedNode.init.type = InitKindOf(doc[i].frag)
             /\ errors' = errors]_vars

\* the errors the iteration recorded
NewErrors == SubSeq(errors', Len(errors) + 1, Len(errors'))

\* C15: the iteration of parse that reads a `for` whose header lacks the `;`
\* after the init clause or after the test clause pushes no node and records
\* exactly one error, which is not a missing-semicolon error.
C15_ForSeparatorHard ==
    [][\A i \in 1..Len(doc) :
          (AtPiece(i) /\ doc[i].frag \in ForNoSemiFrags /\ iters' = iters + 1)
          => /\ statements' = statements
             /\ Len(NewErrors) = 1
             /\ NewErrors[1].message.text \notin MissingSemicolonTexts]_vars

\* C16: an error that the catch of parseStatement records for a failure
\* thrown at a token (its message ends `at position <start of that token>`)
\* carries the start and end offsets of that token.
C16_ErrorAtOffendingToken ==
    [][\A k \in 1..Len(NewErrors) :
          NewErrors[k].message.pos >= 0
          => \E t \in 1..Len(tokens) :
                /\ tokens[t].start = NewErrors[k].message.pos
                /\ NewErrors[k].start = tokens[t].start
                /\ NewErrors[k].end = tokens[t].end]_vars

(***************************************************************************)
(* Properties of the language server.                                      *)
(***************************************************************************)
\* C17: a validation that ran with settings whose enableTypeChecking is
\* false took the branch that calls neither the parser nor the type checker
\* and published the empty list.
C17_DisabledSkipsAnalysis ==
    (lastRun.branch # "none" /\ lastRun.settings.enableTypeChecking = "false")
    => (lastRun.branch = "disabled" /\ published = <<>>)

\* C18: when analyzeTypeSafety has run a second time on the same text, its
\* AST (node kinds, offsets) and its list of diagnostics (messages, ranges,
\* order) are those of the first run.
C18_SameTextSameResult ==
    (previous.runs = 1 /\ pc \in {"analyzed", "done"})
    => (statements = previous.body /\ diagnostics = previous.errors)

C18_Witness ==
    /\ previous.runs = 1
    /\ pc = "done"
    /\ Len(statements) = 2
    /\ errors # <<>>
    /\ Len(diagnostics) > Len(errors)

\* the iteration recorded an error with a message and a range in piece i
RecordedIn(i) ==
    \E k \in 1..Len(NewErrors) :
        /\ NewErrors[k].message # NoMsg
        /\ NewErrors[k].start >= PieceStart(i)
        /\ NewErrors[k].end > NewErrors[k].start

\* C19: the iteration of parse that reads a statement whose closing `)`,
\* `]` or `}` is missing, or whose block runs to the end of the text without
\* its `}`, records an error with a message and an offset range.
C19_MissingCloserRecorded ==
    [][\A i \in 1..Len(doc) :
          (/\ AtPiece(i)
           /\ iters' = iters + 1
           /\ \/ doc[i].frag \in UnclosedFrags.closer
              \/ doc[i].frag \in UnclosedFrags.block /\ i = Len(doc))
          => RecordedIn(i)]_vars

\* C19 without the blocks that run to the end of the text
C19_MissingCloserOfHeaderRecorded ==
    [][\A i \in 1..Len(doc) :
          (AtPiece(i) /\ iters' = iters + 1 /\ doc[i].frag \in UnclosedFrags.closer)
          => RecordedIn(i)]_vars

\* the settings that apply to the document now
CurrentSettings ==
    IF hasConfigurationCapability \/ clientSettings.defined THEN clientSettings
    ELSE defaultSettings

\* what validateTextDocument sends for the document's text under them
CurrentDiagnostics ==
    IF TypeCheckingDisabled(CurrentSettings) THEN <<>>
    ELSE WithSource(analyzeTypeSafety(input).errors)

\* every message of the client was handled and no validation is suspended
Quiet == inbox = <<>> /\ requests = <<>> /\ awaiting = <<>>

\* C20: once the document is open and the server has nothing left to do for
\* it, the diagnostics it published last are those of the document's most
\* recent text under the most recent settings.
C20_LastValidationWins ==
    (doc # <<>> /\ (Quiet \/ pc = "diverged"))
    => (pc = "idle" /\ published = CurrentDiagnostics)

\* C20 for the runs in which every analyzeTypeSafety returns
C20_LastReturnedValidationWins ==
    (doc # <<>> /\ Quiet /\ pc = "idle") => published = CurrentDiagnostics

(***************************************************************************)
(* Properties of the type checker on nested statements.  Every piece of a  *)
(* document of SpecNest parses to one statement, so statement k of the     *)
(* Program is piece k of the document.                                     *)
(***************************************************************************)
DeclIntX == Words(<<VarIntX5, Semi>>)
DeclIntXStr == Words(<<VarIntXStr, Semi>>)
AssignStrX == Words(<<AssignXStr, Semi>>)
CheckedPiece == doc[checkIdx + 1].frag

\* C21: the symbol table is flat.  Checking a statement never removes an
\* entry; checking an if, else, while, for, function or class whose body
\* declares `var int x = 5;` leaves x tracked as int, any other body of
\* these documents leaves the table as it was; and the `x = "a";` that
\* follows such a declaration outside the block gets the diagnostic
\* `expected int but got string`.
C21_FlatSymbolTable ==
    [][CheckStep =>
          /\ DOMAIN symbolTable \subseteq DOMAIN symbolTable'
          /\ CheckedPiece \in Nested(DeclIntX)
                => IsSetOf(symbolTable', symbolTable, X, keywords.int)
          /\ CheckedPiece \in Nested(DeclIntXStr) \cup Nested(AssignStrX)
                => symbolTable' = symbolTable
          /\ (/\ CheckedPiece = AssignStrX
              /\ checkIdx >= 1
              /\ doc[checkIdx].frag \in Nested(DeclIntX))
                => diagnostics' = Append(diagnostics,
                       MismatchAt(Checked.right, keywords.int, keywords.string,
                                  "when assigning to", X))]_vars

C21_Witness ==
    /\ pc = "checking"
    /\ checkIdx = 2
    /\ doc[1].frag \in Nested(DeclIntX)
    /\ statements[1].type = "ClassDeclaration"
    /\ doc[2].frag = AssignStrX
    /\ symbolTable = (X :> keywords.int)
    /\ Len(diagnostics) = 1

(***************************************************************************)
(* Properties of the AST.                                                  *)
(***************************************************************************)
\* the fields of a node that hold nodes, and the nodes in them
Fields(node) ==
    CASE node.type = "VariableDeclaration" -> <<node.init>>
      [] node.type = "AssignmentExpression" -> <<node.left, node.right>>
      [] node.type = "ExpressionStatement" -> <<node.expression>>
      [] node.type = "ReturnStatement" -> <<node.argument>>
      [] node.type = "IfStatement" -> <<node.test, node.consequent, node.alternate>>
      [] node.type = "WhileStatement" -> <<node.test, node.body>>
      [] node.type = "ForStatement" -> <<node.init, node.test, node.update, node.body>>
      [] node.type \in {"FunctionDeclaration", "ClassDeclaration"} ->
             <<node.id, node.body>>
      [] node.type = "BlockStatement" -> node.body
      [] node.type \in {"BinaryExpression", "LogicalExpression"} ->
             <<node.left, node.right>>
      [] node.type = "UnaryExpression" -> <<node.argument>>
      [] node.type = "CallExpression" -> <<node.callee>> \o node.arguments
      [] node.type = "MemberExpression" -> <<node.object, node.property>>
      [] node.type = "ArrayExpression" -> node.elements
      [] node.type = "ObjectExpression" -> node.properties
      [] node.type = "Property" -> <<node.value>>
      [] OTHER -> <<>>

Parts(node) == SelectSeq(Fields(node), LAMBDA part : part # NoNode)

HasRange(node) ==
    /\ {"start", "end"} \subseteq DOMAIN node
    /\ 0 <= node.start
    /\ node.start <= node.end

RECURSIVE AllRanged(_)
AllRanged(node) ==
    /\ HasRange(node)
    /\ \A k \in 1..Len(Parts(node)) : AllRanged(Parts(node)[k])

\* AllRanged but for the BlockStatement nodes themselves
RECURSIVE AllButBlocksRanged(_)
AllButBlocksRanged(node) ==
    /\ node.type # "BlockStatement" => HasRange(node)
    /\ \A k \in 1..Len(Parts(node)) : AllButBlocksRanged(Parts(node)[k])

\* C22: every node of the Program parse returns, at any depth, has `start`
\* and `end` offsets with 0 <= start <= end.
C22_EveryNodeHasRange ==
    pc \in Returned => \A k \in 1..Len(statements) : AllRanged(statements[k])

\* C22 for every node that is not a BlockStatement
C22_EveryNodeButBlockHasRange ==
    pc \in Returned =>
        \A k \in 1..Len(statements) : AllButBlocksRanged(statements[k])

(***************************************************************************)
(* Properties of the expression parser.                                    *)
(***************************************************************************)
BinaryOperators ==
    {<<"*">>, <<"/">>, <<"%">>, <<"+">>, <<"-">>, <<"<">>, <<"<", "=">>, <<">">>,
     <<">", "=">>, <<"=", "=">>, <<"!", "=">>, keywords.and, keywords.or}

\* binding strength of a binary operator in the reference grammar
Strength(operator) ==
    CASE operator \in {<<"*">>, <<"/">>, <<"%">>} -> 6
      [] operator \in {<<"+">>, <<"-">>} -> 5
      [] operator \in {<<"<">>, <<"<", "=">>, <<">">>, <<">", "=">>} -> 4
      [] operator \in {<<"=", "=">>, <<"!", "=">>} -> 3
      [] operator = keywords.and -> 2
      [] operator = keywords.or -> 1

\* positions of the binary operators in a sequence of words
OperatorsAt(ws) == {k \in 1..Len(ws) : ws[k] \in BinaryOperators}

\* the operator applied last: the rightmost of the weakest ones
Weakest(ws) ==
    CHOOSE k \in OperatorsAt(ws) :
        \A j \in OperatorsAt(ws) :
            \/ Strength(ws[j]) > Strength(ws[k])
            \/ Strength(ws[j]) = Strength(ws[k]) /\ j <= k

\* the tree of the reference grammar for a sequence of names, `not` and
\* binary operators
RECURSIVE Reference(_)
Reference(ws) ==
    IF OperatorsAt(ws) = {}
    THEN IF ws[1] = keywords.not
         THEN [operator |-> keywords.not, argument |-> Reference(Tail(ws))]
         ELSE [name |-> ws[1]]
    ELSE [operator |-> ws[Weakest(ws)],
          left |-> Reference(SubSeq(ws, 1, Weakest(ws) - 1)),
          right |-> Reference(SubSeq(ws, Weakest(ws) + 1, Len(ws)))]

\* an expression node without its offsets and node types
RECURSIVE Shape(_)
Shape(node) ==
    CASE node.type = "Identifier" -> [name |-> node.name]
      [] node.type = "UnaryExpression" ->
            [operator |-> node.operator, argument |-> Shape(node.argument)]
      [] node.type \in {"BinaryExpression", "LogicalExpression"} ->
            [operator |-> node.operator, left |-> Shape(node.left),
             right |-> Shape(node.right)]
      [] OTHER -> [name |-> <<>>]

\* the words between `x =` and `;` of the one statement of the document
ExpressionWords == [k \in 1..(Len(tokens) - 3) |-> tokens[k + 2].value]

\* C23: the right-hand side of `x = e ;` is parsed into the tree the
\* reference grammar gives e: `* /` bind tighter than `+ -`, those tighter
\* than `< >=`, then `== !=`, then `and`, then `or`; `not` binds tighter
\* than every binary operator; operators of one level group to the left.
C23_PrecedenceAndAssociativity ==
    pc \in Returned /\ doc # <<>> =>
        /\ errors = <<>>
        /\ Len(statements) = 1
        /\ statements[1].type = "AssignmentExpression"
        /\ Shape(statements[1].right) = Reference(ExpressionWords)

\* `x = a - b * not c ;` is parsed as a - (b * (not c))
C23_Witness ==
    /\ pc \in Returned /\ doc # <<>>
    /\ ExpressionWords = <<<<"a">>, <<"-">>, <<"b">>, <<"*">>, keywords.not, <<"c">>>>
    /\ Shape(statements[1].right) =
           [operator |-> <<"-">>, left |-> [name |-> <<"a">>],
            right |-> [operator |-> <<"*">>, left |-> [name |-> <<"b">>],
                       right |-> [operator |-> keywords.not,
                                  argument |-> [name |-> <<"c">>]]]]

(***************************************************************************)
(* Properties of the recovery.                                             *)
(***************************************************************************)
\* the cursor positions from `from` on whose token stops the recovery scan
StopsFrom(from) ==
    {k \in from..(Len(tokens) - 1) :
        \/ tokens[k + 1].value \in {<<";">>, <<"{">>, <<"}">>}
        \/ tokens[k + 1].value \in
               {<<"v", "a", "r">>, <<"i", "f">>, <<"w", "h", "i", "l", "e">>,
                <<"f", "o", "r">>, <<"f", "u", "n">>, <<"c", "l", "a", "s", "s">>,
                <<"r", "e", "t", "u", "r", "n">>}
        \/ tokens[k + 1].type = "IDENTIFIER"}

First(positions) == CHOOSE k \in positions : \A j \in positions : k <= j

\* where the recovery from `from` is to leave the cursor
RecoveryPoint(from) ==
    IF StopsFrom(from) = {} THEN Len(tokens)
    ELSE IF tokens[First(StopsFrom(from)) + 1].value = <<";">>
    THEN First(StopsFrom(from)) + 1
    ELSE First(StopsFrom(from))

\* C24: the recovery from a failure at the cursor leaves the cursor just
\* after the first `;` at or after it, or at the first `{`, `}` or statement
\* start if that comes earlier, or at the end of the tokens if there is
\* none of these; it consumes nothing beyond.
C24_RecoveryPoint ==
    [][pc = "failed" => position' = RecoveryPoint(position)]_vars

\* `else 5 ;`, failed before the `;`: the cursor is left after the `;`
C24_Witness ==
    /\ pc = "recovered"
    /\ input = Words(<<keywords.else, Five, Semi>>)
    /\ position = 3

(***************************************************************************)
(* Properties of the symbol table.                                         *)
(***************************************************************************)
\* C25: the symbol table has one entry per name and the last successful
\* write wins.  Checking an untyped declaration of a name sets its entry to
\* any, whatever it was; checking a typed declaration that adds no
\* diagnostic sets it to the declared type, whatever it was; and an
\* assignment to a name whose entry is any adds no diagnostic and writes
\* nothing.
C25_LastWriteWins ==
    [][CheckStep =>
          /\ (Checked.type = "VariableDeclaration" /\ Checked.declaredType = NoType)
                => IsSetOf(symbolTable', symbolTable, Checked.name, keywords.any)
          /\ (/\ Checked.type = "VariableDeclaration"
              /\ Checked.declaredType # NoType
              /\ diagnostics' = diagnostics)
                => IsSetOf(symbolTable', symbolTable, Checked.name,
                           Checked.declaredType)
          /\ (/\ Checked.type = "AssignmentExpression"
              /\ Checked.left.type = "Identifier"
              /\ SymbolGet(symbolTable, Checked.left.name) = keywords.any)
                => diagnostics' = diagnostics /\ symbolTable' = symbolTable]_vars

\* var int x = 5 ; var x = 1.5 ; x = "a" ; has been checked: x is any and
\* there is no diagnostic
C25_Witness ==
    /\ pc = "checking"
    /\ checkIdx = 3
    /\ doc[1].frag = VarIntX5
    /\ doc[2].frag = VarXHalf
    /\ doc[3].frag = AssignXStr
    /\ symbolTable = (X :> keywords.any)
    /\ diagnostics = <<>>

(***************************************************************************)
(* Properties of a parser object that is used for two parse calls.  The    *)
(* Program of the first call is `previous`; the error list it refers to is *)
(* the parser's own.                                                       *)
(***************************************************************************)
\* C26: the Program of the second parse call on a parser object is the one
\* a new parser returns for the text of that call, body and error list, and
\* the error list of the Program returned first is what it was when it was
\* returned.
C26_ParseStateless ==
    (previous.runs = 1 /\ pc = "parsed") =>
        /\ statements = parse(input, NewParser.errors).body
        /\ hasErrors => errors = parse(input, NewParser.errors).errors
        /\ previous.shared => errors = previous.errors

\* C26 for the body alone
C26_BodyStateless ==
    (previous.runs = 1 /\ pc = "parsed") =>
        statements = parse(input, NewParser.errors).body

(***************************************************************************)
(* Properties of the traversal.                                            *)
(***************************************************************************)
\* the declarations and assignments in a node, at any depth
RECURSIVE Writes(_)
Writes(node) ==
    (IF node.type \in {"VariableDeclaration", "AssignmentExpression"}
     THEN {node} ELSE {})
    \cup UNION {Writes(Parts(node)[k]) : k \in 1..Len(Parts(node))}

\* a set of nodes in document order
RECURSIVE InOrder(_)
InOrder(nodes) ==
    IF nodes = {} THEN <<>>
    ELSE <<CHOOSE n \in nodes : \A m \in nodes : n.start <= m.start>>
         \o InOrder(nodes \ {CHOOSE n \in nodes : \A m \in nodes : n.start <= m.start})

\* the table after the declaration or assignment w
TableAfter(w, table) ==
    IF w.type # "VariableDeclaration" THEN table
    ELSE IF w.declaredType = NoType THEN SymbolSet(table, w.name, keywords.any)
    ELSE IF w.init # NoNode
            /\ ~CompatibleRule(w.declaredType, inferType(w.init, table))
    THEN table
    ELSE SymbolSet(table, w.name, w.declaredType)

\* the diagnostic of the declaration or assignment w, if it mismatches
MismatchOf(w, table) ==
    IF w.type = "VariableDeclaration"
    THEN IF w.declaredType # NoType /\ w.init # NoNode
            /\ ~CompatibleRule(w.declaredType, inferType(w.init, table))
         THEN <<MismatchAt(w.init, w.declaredType, inferType(w.init, table),
                           "for variable", w.name)>>
         ELSE <<>>
    ELSE IF w.left.type = "Identifier" /\ w.right # NoNode
            /\ SymbolGet(table, w.left.name) \notin {NoType, keywords.any}
            /\ ~CompatibleRule(SymbolGet(table, w.left.name), inferType(w.right, table))
    THEN <<MismatchAt(w.right, SymbolGet(table, w.left.name),
                      inferType(w.right, table), "when assigning to", w.left.name)>>
    ELSE <<>>

\* the diagnostics of a list of declarations and assignments
RECURSIVE MismatchesOf(_, _)
MismatchesOf(ws, table) ==
    IF ws = <<>> THEN <<>>
    ELSE MismatchOf(Head(ws), table)
         \o MismatchesOf(Tail(ws), TableAfter(Head(ws), table))

AllWrites == UNION {Writes(statements[k]) : k \in 1..Len(statements)}

\* C27: when the check of a parsed document is over, the Type-mismatch
\* diagnostics (those after the syntax diagnostics) are those of all the
\* declarations and assignments of the AST, at any depth, taken in document
\* order: one for each that mismatches the table as the ones before it
\* left it.
C27_EveryWriteChecked ==
    (pc \in {"analyzed", "done"} /\ hasErrors) =>
        SubSeq(diagnostics, Len(errors) + 1, Len(diagnostics))
            = MismatchesOf(InOrder(AllWrites), <<>>)

\* var int x = 5 ; for ( var int x = "a" ; ; y ; ) { x = "a" ; } has been
\* checked: one diagnostic for the init clause, one for the body
C27_Witness ==
    /\ pc = "analyzed"
    /\ Len(doc) = 2
    /\ doc[1].frag = Words(<<VarIntX5, Semi>>)
    /\ doc[2].frag = ForDeclInit
    /\ Len(diagnostics) = 2
    /\ diagnostics[1].message.where = "for variable"
    /\ diagnostics[2].message.where = "when assigning to"

(***************************************************************************)
(* Properties of the statement lists.                                      *)
(***************************************************************************)
\* the BlockStatement nodes in a node, at any depth
RECURSIVE Blocks(_)
Blocks(node) ==
    (IF node.type = "BlockStatement" THEN {node} ELSE {})
    \cup UNION {Blocks(Parts(node)[k]) : k \in 1..Len(Parts(node))}

NoEmptyEntry(body) == \A k \in 1..Len(body) : body[k] # NoNode

\* C28: no body of the Program or of a BlockStatement in it has a null
\* entry: a statement that failed is left out of the list.
C28_NoEmptyEntries ==
    pc \in Returned =>
        /\ NoEmptyEntry(statements)
        /\ \A k \in 1..Len(statements) :
              \A block \in Blocks(statements[k]) : NoEmptyEntry(block.body)

\* C28 for the Program and the blocks written with braces
C28_NoEmptyEntriesInBraces ==
    pc \in Returned =>
        /\ NoEmptyEntry(statements)
        /\ \A k \in 1..Len(statements) :
              doc[k].frag # IfVarFive =>
                  \A block \in Blocks(statements[k]) : NoEmptyEntry(block.body)

(***************************************************************************)
(* Properties of the statements that start with no statement's token.      *)
(***************************************************************************)
\* the token starts no statement and is not a brace
Stray(token) ==
    /\ token.value \notin
           {<<"v", "a", "r">>, <<"i", "f">>, <<"w", "h", "i", "l", "e">>,
            <<"f", "o", "r">>, <<"f", "u", "n">>, <<"c", "l", "a", "s", "s">>,
            <<"r", "e", "t", "u", "r", "n">>, <<"{">>, <<"}">>}
    /\ token.type # "IDENTIFIER"

\* C29: the iteration of parse at a token that starts no statement and is
\* not a brace (a number, a string, `(`, `not`, `this`, `break`, `elif`, `;`)
\* records no error and pushes no node; it moves the cursor forward, to the
\* recovery point of that token.
C29_StraySkippedSilently ==
    [][(/\ pc = "parsing"
        /\ position < Len(tokens)
        /\ Stray(tokens[position + 1])
        /\ iters' = iters + 1)
       => /\ errors' = errors
          /\ statements' = statements
          /\ position' > position
          /\ position' = RecoveryPoint(position)
          /\ pc' = "parsing"]_vars

\* `break ;` has been skipped and `this . x` skipped up to the x
C29_Witness ==
    /\ pc = "parsing"
    /\ Len(doc) = 2
    /\ doc[1] = [frag |-> keywords.break, tail |-> Semi]
    /\ doc[2].frag = Words(<<keywords.this, <<".">>, X>>)
    /\ position = 4
    /\ iters = 2
    /\ errors = <<>>
    /\ statements = <<>>

(***************************************************************************)
(* Properties of the offsets.                                              *)
(***************************************************************************)
HasOffsets(node) == {"start", "end"} \subseteq DOMAIN node

Contains(node, child) ==
    (HasOffsets(node) /\ HasOffsets(child))
    => (node.start <= child.start /\ child.end <= node.end)

\* every node of kinds, in node and below, contains its children
RECURSIVE Nests(_, _)
Nests(node, kinds) ==
    \A k \in 1..Len(Parts(node)) :
        /\ node.type \in kinds => Contains(node, Parts(node)[k])
        /\ Nests(Parts(node)[k], kinds)

StatementKinds ==
    {"VariableDeclaration", "ExpressionStatement", "ReturnStatement", "IfStatement",
     "WhileStatement", "ForStatement", "FunctionDeclaration", "ClassDeclaration"}
ExpressionKinds ==
    {"AssignmentExpression", "BinaryExpression", "LogicalExpression",
     "UnaryExpression", "CallExpression", "MemberExpression", "ArrayExpression",
     "ObjectExpression", "Property"}

\* C30: in the Program parse returns, the range of every node that has
\* offsets contains the range of each of its children that has offsets.
C30_ChildWithinParent ==
    pc \in Returned =>
        \A k \in 1..Len(statements) : Nests(statements[k], StatementKinds \cup ExpressionKinds)

\* C30 for the expression nodes
C30_OperandWithinExpression ==
    pc \in Returned =>
        \A k \in 1..Len(statements) : Nests(statements[k], ExpressionKinds)

====
